---- MODULE Spec2Model ----
(***************************************************************************)
(* flowsome: the task graph (flowsome/pipeline.py DAG), its cycle          *)
(* detection, the recursive memoized engine Pipeline.run and the task      *)
(* variants of flowsome/tasks.py.                                          *)
(*                                                                         *)
(* Data never enters the model: a lazy frame is the term that describes    *)
(* how it was computed, a sequence of strings in prefix notation.          *)
(***************************************************************************)
EXTENDS Integers, Sequences, FiniteSets, TLC

(* ------------------------------------------------------------------ *)
(* Bounds                                                             *)
(* ------------------------------------------------------------------ *)
MaxCalls == 3

(* ------------------------------------------------------------------ *)
(* Task objects the caller can construct.  An object is named by a    *)
(* string; task_id, variant and keyword configuration are fixed by    *)
(* its constructor call.  "t1x" is a second object built with the id  *)
(* "t1"; "mi" is a merge with how="inner"; "tz" is a transform asked   *)
(* for with the operation "drop_nulls".                                *)
(* ------------------------------------------------------------------ *)
Objs == {"r1", "r2", "t1", "t2", "t3", "tz", "m", "mi", "w1", "t1x"}

TaskId(o) == IF o = "t1x" THEN "t1" ELSE o

TaskType(o) ==
    CASE o \in {"r1", "r2"} -> "read"
      [] o \in {"t1", "t2", "t3", "tz"} -> "transform"
      [] o \in {"m", "mi", "t1x"} -> "merge"
      [] OTHER -> "write"

NoParam == "-"
NoExc == "none"

InitParams(o) ==
    CASE o = "m" -> [how |-> "right", on |-> "Email"]
      [] o = "mi" -> [how |-> "inner", on |-> "Email"]
      [] o = "t1x" -> [how |-> NoParam, on |-> "Email"]
      [] OTHER -> [how |-> NoParam, on |-> NoParam]

\* the func argument of a TransformTask constructor call
Func(o) ==
    CASE o = "t1" -> "filter"
      [] o \in {"t2", "t3"} -> "limit"
      [] o = "tz" -> "drop_nulls"
      [] OTHER -> NoParam

\* the values of the enum TransformMethods
TransformMethods == {"filter", "join", "select", "sort", "limit"}

\* operation names the constructor is tried with, and those among them
\* that are attributes of the engine's LazyFrame
FuncNames == TransformMethods \cup {"drop_nulls", "frobnicate"}
LazyFrameAttrs == TransformMethods \cup {"drop_nulls"}

\* TransformTask.__init__ accepting every attribute of LazyFrame
TransformTask_init_hasattr(func) ==
    IF func \notin LazyFrameAttrs THEN "ValueError" ELSE NoExc

\* TransformTask.__init__: the exception it raises for the operation func
\* ("func not in TransformMethods" compares func with the members' values)
TransformTask_init(func) ==
    IF func \notin TransformMethods \/ func \notin LazyFrameAttrs
    THEN "ValueError" ELSE NoExc

\* the exception the constructor call of object o raises
Construct(o) ==
    IF TaskType(o) = "transform" THEN TransformTask_init(Func(o)) ELSE NoExc

(* The constructor calls one caller makes. *)
Pools ==
    { {"r1", "r2", "t1", "m"},
      {"r1", "t1", "w1", "tz"},
      {"r1", "r2", "mi"},
      {"r1", "t1", "t1x"} }

VARIABLES
    pool,       \* the task objects the caller has constructed
    rejected,   \* the constructor calls that raised
    nodes,      \* DAG.nodes: the registered objects in insertion order, keyed by task_id
    parents,    \* TaskNode.parents of every object
    children,   \* TaskNode.children of every object
    params,     \* TaskNode._params of every object (keys how, on)
    calls,      \* number of construction calls made so far (cleared when run() starts)
    last,       \* the last call on the DAG and the exception it raised
    pc,         \* where run() is: idle, running, returned or the exception it raised
    results,    \* run()'s local results dict
    it,         \* position of run()'s loop over self.nodes.items()
    frames,     \* the execute_node activations, innermost last
    log,        \* the execute invocations, in call order, of the previous run and of this one
    instances,  \* ReaderRegistry._instances: format tag -> the reader's scan method
    LazyWriterMethods,  \* writers.LazyWriterMethods: format tag -> sink method
    linear,     \* the linear Pipeline object of client.py last constructed
    trace       \* the steps executed by the last run of a linear pipeline, in order

vars == <<pool, rejected, nodes, parents, children, params, calls, last, pc, results, it, frames, log,
          instances, LazyWriterMethods, linear, trace>>

\* the variables of the readers, the writers and the linear pipelines
iovars == <<instances, LazyWriterMethods, linear, trace>>

\* the format tags the package registers when it is imported
Formats == {"csv", "ipc", "parquet", "json"}

\* the scan function readers.py registers under fmt
ScanMethod(fmt) ==
    CASE fmt = "csv" -> "scan_csv"
      [] fmt = "ipc" -> "scan_ipc"
      [] fmt = "parquet" -> "scan_parquet"
      [] OTHER -> "scan_ndjson"

\* the LazyFrame method writers.py holds under fmt
SinkMethod(fmt) ==
    CASE fmt = "csv" -> "sink_csv"
      [] fmt = "ipc" -> "sink_ipc"
      [] fmt = "parquet" -> "sink_parquet"
      [] OTHER -> "sink_ndjson"

NoPipeline == [operations |-> <<>>, reader |-> "None", transformers |-> <<>>, writers |-> <<>>]

\* the state of the readers, writers and linear pipelines once the package
\* is imported and no linear pipeline has been constructed
Imported ==
    /\ instances = [fmt \in Formats |-> ScanMethod(fmt)]
    /\ LazyWriterMethods = [fmt \in Formats |-> SinkMethod(fmt)]
    /\ linear = NoPipeline
    /\ trace = <<>>

(* ------------------------------------------------------------------ *)
(* Helpers over sequences and dicts                                   *)
(* ------------------------------------------------------------------ *)
Range(s) == {s[i] : i \in 1..Len(s)}

Ids(ns) == {TaskId(ns[i]) : i \in 1..Len(ns)}

\* self.nodes[task_id]
NodeAt(ns, id) == ns[CHOOSE i \in 1..Len(ns) : TaskId(ns[i]) = id]

RECURSIVE Count(_, _)
Count(s, x) ==
    IF s = <<>> THEN 0
    ELSE (IF Head(s) = x THEN 1 ELSE 0) + Count(Tail(s), x)

(* ------------------------------------------------------------------ *)
(* TaskNode structural queries                                        *)
(* ------------------------------------------------------------------ *)
is_root(o) == Len(parents[o]) = 0
is_leaf(o) == Len(children[o]) = 0
\* is_fan_in counting the distinct parents
is_fan_in_distinct(o) == Cardinality({parents[o][k] : k \in 1..Len(parents[o])}) > 1

is_fan_in(o) == Len(parents[o]) > 1
is_fan_out(o) == Len(children[o]) > 1

(* ------------------------------------------------------------------ *)
(* DAG.find_cycles / DAG.has_cycle                                    *)
(* visited and stack are the dicts of booleans, kept as the sets of   *)
(* the ids mapped to True.                                            *)
(* ------------------------------------------------------------------ *)
RECURSIVE depth_first_search(_, _, _)
RECURSIVE dfs_children(_, _, _, _)

\* the body of depth_first_search up to the loop
depth_first_search(node, visited, stack) ==
    dfs_children(node, 1, visited \cup {node}, stack \cup {node})

\* dfs_children flagging every already visited child, on the stack or not
RECURSIVE dfs_children_visited(_, _, _, _)
dfs_children_visited(node, i, visited, stack) ==
    LET cs == children[NodeAt(nodes, node)] IN
    IF i > Len(cs)
    THEN [found |-> FALSE, visited |-> visited, stack |-> stack \ {node}]
    ELSE LET child == TaskId(cs[i]) IN
         IF child \notin visited
         THEN LET r == depth_first_search(child, visited, stack) IN
              IF r.found THEN r
              ELSE dfs_children_visited(node, i + 1, r.visited, r.stack)
         ELSE [found |-> TRUE, visited |-> visited, stack |-> stack]

\* the loop "for child in self.nodes[node].children", from its i-th child on
dfs_children(node, i, visited, stack) ==
    LET cs == children[NodeAt(nodes, node)] IN
    IF i > Len(cs)
    THEN [found |-> FALSE, visited |-> visited, stack |-> stack \ {node}]
    ELSE LET child == TaskId(cs[i]) IN
         IF child \notin visited
         THEN LET r == depth_first_search(child, visited, stack) IN
              IF r.found THEN r
              ELSE dfs_children(node, i + 1, r.visited, r.stack)
         ELSE IF child \in stack
         THEN [found |-> TRUE, visited |-> visited, stack |-> stack]
         ELSE dfs_children(node, i + 1, visited, stack)

RECURSIVE find_cycles_from(_, _, _, _)
\* find_cycles_from starting its searches at root nodes only
RECURSIVE find_cycles_from_roots(_, _, _, _)
find_cycles_from_roots(i, visited, stack, cycle_nodes) ==
    IF i > Len(nodes) THEN cycle_nodes
    ELSE LET node_id == TaskId(nodes[i]) IN
         IF node_id \notin visited /\ Len(parents[nodes[i]]) = 0
         THEN LET r == depth_first_search(node_id, visited, stack) IN
              find_cycles_from_roots(i + 1, r.visited, r.stack,
                  IF r.found THEN Append(cycle_nodes, nodes[i]) ELSE cycle_nodes)
         ELSE find_cycles_from_roots(i + 1, visited, stack, cycle_nodes)

\* the loop "for node_id in self.nodes", from its i-th key on
find_cycles_from(i, visited, stack, cycle_nodes) ==
    IF i > Len(nodes) THEN cycle_nodes
    ELSE LET node_id == TaskId(nodes[i]) IN
         IF node_id \notin visited
         THEN LET r == depth_first_search(node_id, visited, stack) IN
              find_cycles_from(i + 1, r.visited, r.stack,
                  IF r.found THEN Append(cycle_nodes, nodes[i]) ELSE cycle_nodes)
         ELSE find_cycles_from(i + 1, visited, stack, cycle_nodes)

find_cycles == find_cycles_from(1, {}, {}, <<>>)

has_cycle == find_cycles # <<>>

(* ------------------------------------------------------------------ *)
(* Graph construction                                                 *)
(* ------------------------------------------------------------------ *)
\* a lookup answering an unknown id with None, as dict.get does
getitem_default(ns, task_id) ==
    IF task_id \in Ids(ns)
    THEN [exc |-> NoExc, ret |-> NodeAt(ns, task_id)]
    ELSE [exc |-> NoExc, ret |-> "None"]

\* DAG.__getitem__: the node returned or the exception raised for task_id
getitem(ns, task_id) ==
    IF task_id \in Ids(ns)
    THEN [exc |-> NoExc, ret |-> NodeAt(ns, task_id)]
    ELSE [exc |-> "KeyError", ret |-> "None"]

\* find_orphan_nodes reporting every node without parents
find_orphan_nodes_roots ==
    SelectSeq(nodes, LAMBDA node : Len(parents[node]) = 0)

\* DAG.find_orphan_nodes: the list comprehension over self.nodes.values()
find_orphan_nodes ==
    SelectSeq(nodes, LAMBDA node : Len(parents[node]) = 0 /\ Len(children[node]) = 0)

NoObj == "-"

Call(op, a, b, exc) == [op |-> op, a |-> a, b |-> b, exc |-> exc]

\* add_node storing the task under its id unconditionally
add_node_overwrite(ns, task) ==
    IF TaskId(task) \notin Ids(ns) THEN Append(ns, task)
    ELSE [k \in 1..Len(ns) |-> IF TaskId(ns[k]) = TaskId(task) THEN task ELSE ns[k]]

\* the dict after DAG.add_node(task)
add_node(ns, task) ==
    IF TaskId(task) \notin Ids(ns) THEN Append(ns, task) ELSE ns

AddNode(task) ==
    /\ pc = "idle"
    /\ calls < MaxCalls
    /\ task \in pool
    /\ nodes' = add_node(nodes, task)
    /\ last' = Call("add_node", task, NoObj, NoExc)
    /\ calls' = calls + 1
    /\ UNCHANGED <<iovars, pool, rejected, parents, children, params, pc, results, it, frames, log>>

\* add_edge linking the objects passed in instead of the registered ones
AddEdge_passed(parent, child) ==
    /\ pc = "idle"
    /\ calls < MaxCalls
    /\ parent \in pool /\ child \in pool
    /\ nodes' = add_node(add_node(nodes, parent), child)
    /\ children' = [children EXCEPT ![parent] = Append(@, child)]
    /\ parents' = [parents EXCEPT ![child] = Append(@, parent)]
    /\ last' = Call("add_edge", parent, child, NoExc)
    /\ calls' = calls + 1
    /\ UNCHANGED <<iovars, pool, rejected, params, pc, results, it, frames, log>>

\* the graph after DAG.add_edge(parent, child) on the graph g
\* add_edge ignoring an edge that is already recorded
add_edge_once(g, parent, child) ==
    LET ns == add_node(add_node(g.nodes, parent), child)
        p == NodeAt(ns, TaskId(parent))
        c == NodeAt(ns, TaskId(child))
    IN IF \E k \in 1..Len(g.children[p]) : TaskId(g.children[p][k]) = TaskId(child)
       THEN [nodes |-> ns, children |-> g.children, parents |-> g.parents]
       ELSE [nodes |-> ns,
             children |-> [g.children EXCEPT ![p] = Append(@, child)],
             parents |-> [g.parents EXCEPT ![c] = Append(@, parent)]]

\* add_edge recording the link on the parent's side only
add_edge_oneway(g, parent, child) ==
    LET ns == add_node(add_node(g.nodes, parent), child)
        p == NodeAt(ns, TaskId(parent))
    IN [nodes |-> ns,
        children |-> [g.children EXCEPT ![p] = Append(@, child)],
        parents |-> g.parents]

add_edge(g, parent, child) ==
    LET ns == add_node(add_node(g.nodes, parent), child)
        p == NodeAt(ns, TaskId(parent))
        c == NodeAt(ns, TaskId(child))
    IN [nodes |-> ns,
        children |-> [g.children EXCEPT ![p] = Append(@, child)],
        parents |-> [g.parents EXCEPT ![c] = Append(@, parent)]]

AddEdge(parent, child) ==
    /\ pc = "idle"
    /\ parent \in pool /\ child \in pool
    /\ calls < MaxCalls
    /\ LET g == add_edge([nodes |-> nodes, children |-> children, parents |-> parents],
                         parent, child)
       IN /\ nodes' = g.nodes
          /\ children' = g.children
          /\ parents' = g.parents
    /\ last' = Call("add_edge", parent, child, NoExc)
    /\ calls' = calls + 1
    /\ UNCHANGED <<iovars, pool, rejected, params, pc, results, it, frames, log>>

(* ------------------------------------------------------------------ *)
(* Task variants: execute                                             *)
(* engine_ok is the external engine's answer when it is reached.      *)
(* ------------------------------------------------------------------ *)
None == <<"None">>
Raised == <<"raised">>

\* what one execute call did: the exception it raised, its return value, the
\* operands and direction handed to the engine primitive, and self._params after it
Outcome(exc, out, prim, how, ps) ==
    [exc |-> exc, cause |-> NoExc, out |-> out, prim |-> prim, how |-> how, params |-> ps]

\* ReadTask.execute taking and ignoring any number of inputs
ReadTask_execute_varargs(o, args, engine_ok) ==
    IF ~engine_ok
    THEN Outcome("EngineError", Raised, <<>>, NoParam, params[o])
    ELSE Outcome(NoExc, <<"scan", o>>, <<>>, NoParam, params[o])

ReadTask_execute(o, args, engine_ok) ==
    IF Len(args) # 0
    THEN Outcome("TypeError", Raised, <<>>, NoParam, params[o])
    ELSE IF ~engine_ok
    THEN Outcome("EngineError", Raised, <<>>, NoParam, params[o])
    ELSE Outcome(NoExc, <<"scan", o>>, <<>>, NoParam, params[o])

TransformTask_execute(o, args, engine_ok) ==
    IF Len(args) # 1
    THEN Outcome("TypeError", Raised, <<>>, NoParam, params[o])
    ELSE IF args[1] = None \/ Func(o) \notin LazyFrameAttrs
    THEN Outcome("AttributeError", Raised, <<>>, NoParam, params[o])
    ELSE IF ~engine_ok
    THEN Outcome("EngineError", Raised, <<args[1]>>, NoParam, params[o])
    ELSE Outcome(NoExc, <<"transform", o>> \o args[1], <<args[1]>>, NoParam, params[o])

WriteTask_execute(o, args, engine_ok) ==
    IF Len(args) # 1
    THEN Outcome("TypeError", Raised, <<>>, NoParam, params[o])
    ELSE IF args[1] = None
    THEN Outcome("AttributeError", Raised, <<>>, NoParam, params[o])
    ELSE IF ~engine_ok
    THEN Outcome("EngineError", Raised, <<args[1]>>, NoParam, params[o])
    ELSE Outcome(NoExc, None, <<args[1]>>, NoParam, params[o])

\* _swap_dfs swapping for every direction but "left"
swap_dfs_notleft(o, df, other_df) ==
    IF params[o].how # "left"
    THEN [df |-> other_df, other_df |-> df, params |-> [params[o] EXCEPT !.how = "left"]]
    ELSE [df |-> df, other_df |-> other_df, params |-> params[o]]

\* _swap_dfs rewriting the direction without swapping the operands
swap_dfs_noswap(o, df, other_df) ==
    IF params[o].how = "right"
    THEN [df |-> df, other_df |-> other_df, params |-> [params[o] EXCEPT !.how = "left"]]
    ELSE [df |-> df, other_df |-> other_df, params |-> params[o]]

\* MergeTask._swap_dfs: the pair returned and self._params after the call
swap_dfs(o, df, other_df) ==
    IF params[o].how = "right"
    THEN [df |-> other_df, other_df |-> df, params |-> [params[o] EXCEPT !.how = "left"]]
    ELSE [df |-> df, other_df |-> other_df, params |-> params[o]]

MergeTask_execute(o, args, engine_ok) ==
    IF Len(args) # 2
    THEN Outcome("TypeError", Raised, <<>>, NoParam, params[o])
    ELSE LET sw == swap_dfs(o, args[1], args[2]) IN
         IF sw.df = None
         THEN Outcome("AttributeError", Raised, <<>>, NoParam, sw.params)
         ELSE IF sw.other_df = None \/ ~engine_ok
         THEN Outcome("EngineError", Raised, <<sw.df, sw.other_df>>, sw.params.how, sw.params)
         ELSE Outcome(NoExc, <<"join", sw.params.how, sw.params.on>> \o sw.df \o sw.other_df,
                      <<sw.df, sw.other_df>>, sw.params.how, sw.params)

\* try_except wrapping the engine's errors only
try_except_engine(r) ==
    IF r.exc = "EngineError"
    THEN [r EXCEPT !.exc = "TaskExecutionError", !.cause = r.exc] ELSE r

\* decorators.try_except: "raise TaskExecutionError(str(e)) from e"
try_except(r) ==
    IF r.exc # NoExc
    THEN [r EXCEPT !.exc = "TaskExecutionError", !.cause = r.exc] ELSE r

\* node.execute(*args), dispatched on the object's class
execute(o, args, engine_ok) ==
    try_except(CASE TaskType(o) = "read" -> ReadTask_execute(o, args, engine_ok)
                 [] TaskType(o) = "transform" -> TransformTask_execute(o, args, engine_ok)
                 [] TaskType(o) = "write" -> WriteTask_execute(o, args, engine_ok)
                 [] OTHER -> MergeTask_execute(o, args, engine_ok))

(* ------------------------------------------------------------------ *)
(* Pipeline.run                                                       *)
(* ------------------------------------------------------------------ *)
Frame(node, i) == [node |-> node, i |-> i]
Top == frames[Len(frames)]
Pop == SubSeq(frames, 1, Len(frames) - 1)

\* run() keeping the results dict of the run before
Run_keep ==
    /\ pc # "running"
    /\ last' = Call("run", NoObj, NoObj, NoExc)
    /\ calls' = 0
    /\ log' = IF log = <<>> THEN <<<<>>>> ELSE <<log[Len(log)], <<>>>>
    /\ frames' = <<>>
    /\ it' = 1
    /\ pc' = IF has_cycle THEN "PipelineCycleError" ELSE "running"
    /\ UNCHANGED <<iovars, pool, rejected, nodes, parents, children, params, results>>

\* run() up to the creation of the results dict
Run ==
    /\ pc # "running"
    /\ last' = Call("run", NoObj, NoObj, NoExc)
    /\ calls' = 0
    /\ log' = IF log = <<>> THEN <<<<>>>> ELSE <<log[Len(log)], <<>>>>
    /\ frames' = <<>>
    /\ it' = 1
    /\ IF has_cycle
       THEN /\ pc' = "PipelineCycleError"
            /\ UNCHANGED results
       ELSE /\ pc' = "running"
            /\ results' = <<>>
    /\ UNCHANGED <<iovars, pool, rejected, nodes, parents, children, params>>

\* the loop over the nodes ending after the first root
RootLoop_first ==
    /\ pc = "running"
    /\ frames = <<>>
    /\ IF it > Len(nodes) \/ \E k \in 1..(it - 1) : is_root(nodes[k])
       THEN /\ pc' = "returned"
            /\ UNCHANGED <<it, frames>>
       ELSE /\ it' = it + 1
            /\ frames' = IF is_root(nodes[it]) THEN <<Frame(nodes[it], 0)>> ELSE frames
            /\ pc' = pc
    /\ UNCHANGED <<iovars, pool, rejected, nodes, parents, children, params, calls, last, results, log>>

\* the loop taking the nodes newest first
RootLoop_reverse ==
    /\ pc = "running"
    /\ frames = <<>>
    /\ IF it > Len(nodes)
       THEN /\ pc' = "returned"
            /\ UNCHANGED <<it, frames>>
       ELSE /\ it' = it + 1
            /\ frames' = IF is_root(nodes[Len(nodes) + 1 - it])
                         THEN <<Frame(nodes[Len(nodes) + 1 - it], 0)>> ELSE frames
            /\ pc' = pc
    /\ UNCHANGED <<iovars, pool, rejected, nodes, parents, children, params, calls, last, results, log>>

\* one iteration of "for _, node in self.nodes.items()", or its end
RootLoop ==
    /\ pc = "running"
    /\ frames = <<>>
    /\ IF it > Len(nodes)
       THEN /\ pc' = "returned"
            /\ UNCHANGED <<it, frames>>
       ELSE /\ it' = it + 1
            /\ frames' = IF is_root(nodes[it]) THEN <<Frame(nodes[it], 0)>> ELSE frames
            /\ pc' = pc
    /\ UNCHANGED <<iovars, pool, rejected, nodes, parents, children, params, calls, last, results, log>>

\* the parents' results collected in the order the parents were executed
parent_results_arrival(node) ==
    LET ids == {TaskId(parents[node][k]) : k \in 1..Len(parents[node])} \cap DOMAIN results
        ran == SelectSeq(log[Len(log)], LAMBDA e : TaskId(e.node) \in ids)
    IN [k \in 1..Len(ran) |-> ran[k].out]

\* the parents' results collected newest parent first
parent_results_reversed(node) ==
    LET have == SelectSeq(parents[node], LAMBDA p : TaskId(p) \in DOMAIN results)
    IN [k \in 1..Len(have) |-> results[TaskId(have[Len(have) + 1 - k])]]

\* the list comprehension of execute_node
parent_results(node) ==
    LET have == SelectSeq(parents[node], LAMBDA p : TaskId(p) \in DOMAIN results)
    IN [k \in 1..Len(have) |-> results[TaskId(have[k])]]

LogCall(node, args, r) ==
    [log EXCEPT ![Len(log)] = Append(@,
        [node |-> node, cfg |-> params[node].how, args |-> args, prim |-> r.prim,
         how |-> r.how, out |-> r.out, exc |-> r.exc, cause |-> r.cause,
         stored |-> r.params])]

\* results[key] = value
Put(d, key, value) ==
    [x \in DOMAIN d \cup {key} |-> IF x = key THEN value ELSE d[x]]

\* execute_node returning without executing the node
Return ==
    /\ frames' = Pop
    /\ UNCHANGED <<pc, results, params, log>>

\* execute_node with a node.execute that works on a copy of self._params
Invoke_copy(node) ==
    \E engine_ok \in BOOLEAN :
        LET r == execute(node, parent_results(node), engine_ok) IN
        /\ UNCHANGED params
        /\ log' = LogCall(node, parent_results(node), r)
        /\ IF r.exc # NoExc
           THEN /\ pc' = r.exc
                /\ frames' = <<>>
                /\ UNCHANGED results
           ELSE /\ results' = Put(results, TaskId(node), r.out)
                /\ frames' = [frames EXCEPT ![Len(frames)].i = 1]
                /\ pc' = pc

\* execute_node going on with the traversal after a failed node.execute
Invoke_swallow(node) ==
    \E engine_ok \in BOOLEAN :
        LET r == execute(node, parent_results(node), engine_ok) IN
        /\ params' = [params EXCEPT ![node] = r.params]
        /\ log' = LogCall(node, parent_results(node), r)
        /\ pc' = pc
        /\ IF r.exc # NoExc
           THEN /\ frames' = Pop
                /\ UNCHANGED results
           ELSE /\ results' = Put(results, TaskId(node), r.out)
                /\ frames' = [frames EXCEPT ![Len(frames)].i = 1]

\* execute_node from the call of node.execute to the store into results
Invoke(node) ==
    \E engine_ok \in BOOLEAN :
        LET r == execute(node, parent_results(node), engine_ok) IN
        /\ params' = [params EXCEPT ![node] = r.params]
        /\ log' = LogCall(node, parent_results(node), r)
        /\ IF r.exc # NoExc
           THEN /\ pc' = r.exc
                /\ frames' = <<>>
                /\ UNCHANGED results
           ELSE /\ results' = Put(results, TaskId(node), r.out)
                /\ frames' = [frames EXCEPT ![Len(frames)].i = 1]
                /\ pc' = pc

\* execute_node without the test "node.task_id not in results"
ExecuteNode_nomemo ==
    /\ pc = "running"
    /\ frames # <<>>
    /\ Top.i = 0
    /\ IF Len(parents[Top.node]) > Len(parent_results(Top.node))
       THEN Return
       ELSE Invoke(Top.node)
    /\ UNCHANGED <<iovars, pool, rejected, nodes, parents, children, calls, last, it>>

\* execute_node without the test on the number of parent results
ExecuteNode_nodefer ==
    /\ pc = "running"
    /\ frames # <<>>
    /\ Top.i = 0
    /\ IF TaskId(Top.node) \in DOMAIN results
       THEN Return
       ELSE Invoke(Top.node)
    /\ UNCHANGED <<iovars, pool, rejected, nodes, parents, children, calls, last, it>>

\* execute_node storing None for a node whose parents are not all done
ExecuteNode_mark ==
    /\ pc = "running"
    /\ frames # <<>>
    /\ Top.i = 0
    /\ IF TaskId(Top.node) \in DOMAIN results
       THEN Return
       ELSE IF Len(parents[Top.node]) > Len(parent_results(Top.node))
       THEN /\ frames' = Pop
            /\ results' = Put(results, TaskId(Top.node), None)
            /\ UNCHANGED <<pc, params, log>>
       ELSE Invoke(Top.node)
    /\ UNCHANGED <<iovars, pool, rejected, nodes, parents, children, calls, last, it>>

\* execute_node(node) from its entry to the loop over the children
ExecuteNode ==
    /\ pc = "running"
    /\ frames # <<>>
    /\ Top.i = 0
    /\ IF TaskId(Top.node) \in DOMAIN results
       THEN Return
       ELSE IF Len(parents[Top.node]) > Len(parent_results(Top.node))
       THEN Return
       ELSE Invoke(Top.node)
    /\ UNCHANGED <<iovars, pool, rejected, nodes, parents, children, calls, last, it>>

\* the loop over the children emptying the list when it ends
ChildLoop_clear ==
    /\ pc = "running"
    /\ frames # <<>>
    /\ Top.i > 0
    /\ IF Top.i > Len(children[Top.node])
       THEN /\ frames' = Pop
            /\ children' = [children EXCEPT ![Top.node] = <<>>]
       ELSE /\ frames' = Append([frames EXCEPT ![Len(frames)].i = @ + 1],
                                Frame(NodeAt(nodes, TaskId(children[Top.node][Top.i])), 0))
            /\ UNCHANGED children
    /\ UNCHANGED <<iovars, pool, rejected, nodes, parents, params, calls, last, pc, results, it, log>>

\* the loop calling execute_node on the child object found in the list
ChildLoop_passed ==
    /\ pc = "running"
    /\ frames # <<>>
    /\ Top.i > 0
    /\ IF Top.i > Len(children[Top.node])
       THEN frames' = Pop
       ELSE frames' = Append([frames EXCEPT ![Len(frames)].i = @ + 1],
                             Frame(children[Top.node][Top.i], 0))
    /\ UNCHANGED <<iovars, pool, rejected, nodes, parents, children, params, calls, last, pc, results, it, log>>

\* the loop taking the children newest first
ChildLoop_reverse ==
    /\ pc = "running"
    /\ frames # <<>>
    /\ Top.i > 0
    /\ IF Top.i > Len(children[Top.node])
       THEN frames' = Pop
       ELSE frames' = Append([frames EXCEPT ![Len(frames)].i = @ + 1],
                             Frame(NodeAt(nodes,
                                 TaskId(children[Top.node][Len(children[Top.node]) + 1 - Top.i])), 0))
    /\ UNCHANGED <<iovars, pool, rejected, nodes, parents, children, params, calls, last, pc, results, it, log>>

\* one iteration of "for child in node.children", or its end
ChildLoop ==
    /\ pc = "running"
    /\ frames # <<>>
    /\ Top.i > 0
    /\ IF Top.i > Len(children[Top.node])
       THEN frames' = Pop
       ELSE frames' = Append([frames EXCEPT ![Len(frames)].i = @ + 1],
                             Frame(NodeAt(nodes, TaskId(children[Top.node][Top.i])), 0))
    /\ UNCHANGED <<iovars, pool, rejected, nodes, parents, children, params, calls, last, pc, results, it, log>>

(* ------------------------------------------------------------------ *)
(* Specifications                                                     *)
(* ------------------------------------------------------------------ *)
Init ==
    /\ \E made \in Pools :
          /\ pool = {o \in made : Construct(o) = NoExc}
          /\ rejected = {o \in made : Construct(o) # NoExc}
    /\ nodes = <<>>
    /\ parents = [o \in Objs |-> <<>>]
    /\ children = [o \in Objs |-> <<>>]
    /\ params = [o \in Objs |-> InitParams(o)]
    /\ calls = 0
    /\ last = Call("init", NoObj, NoObj, NoExc)
    /\ pc = "idle"
    /\ results = <<>>
    /\ it = 1
    /\ frames = <<>>
    /\ log = <<>>
    /\ Imported

Next ==
    \/ \E task \in Objs : AddNode(task)
    \/ \E parent \in Objs, child \in Objs : AddEdge(parent, child)
    \/ Run
    \/ RootLoop
    \/ ExecuteNode
    \/ ChildLoop

Spec == Init /\ [][Next]_vars

\* the interpreter never stops inside run()
FairSpec == Spec /\ WF_vars(RootLoop \/ ExecuteNode \/ ChildLoop)

\* run() called on a pipeline that has not been run before
FirstRun ==
    /\ log = <<>>
    /\ Run

FirstRunNext ==
    \/ \E task \in Objs : AddNode(task)
    \/ \E parent \in Objs, child \in Objs : AddEdge(parent, child)
    \/ FirstRun
    \/ RootLoop
    \/ ExecuteNode
    \/ ChildLoop

\* a pipeline is built and run once, the interpreter never stopping inside run()
FirstRunSpec ==
    /\ Init
    /\ [][FirstRunNext]_vars
    /\ WF_vars(RootLoop \/ ExecuteNode \/ ChildLoop)

(* ------------------------------------------------------------------ *)
(* The two-root fan-in pipeline: the graph is the one the six add_edge *)
(* calls build, and run() is called on it any number of times.         *)
(* ------------------------------------------------------------------ *)
ScenarioPool == {"r1", "t1", "r2", "t2", "m", "t3", "w1"}

ScenarioEdges ==
    << <<"r1", "t1">>, <<"t1", "m">>, <<"r2", "t2">>, <<"t2", "m">>,
       <<"m", "t3">>, <<"t3", "w1">> >>

\* DAG.__init__
EmptyDAG ==
    [nodes |-> <<>>, children |-> [o \in Objs |-> <<>>], parents |-> [o \in Objs |-> <<>>]]

\* the graph after the first n add_edge calls
RECURSIVE Build(_)
Build(n) ==
    IF n = 0 THEN EmptyDAG
    ELSE add_edge(Build(n - 1), ScenarioEdges[n][1], ScenarioEdges[n][2])

ScenarioInit ==
    /\ pool = {o \in ScenarioPool : Construct(o) = NoExc}
    /\ rejected = {o \in ScenarioPool : Construct(o) # NoExc}
    /\ nodes = Build(Len(ScenarioEdges)).nodes
    /\ parents = Build(Len(ScenarioEdges)).parents
    /\ children = Build(Len(ScenarioEdges)).children
    /\ params = [o \in Objs |-> InitParams(o)]
    /\ calls = Len(ScenarioEdges)
    /\ last = Call("add_edge", ScenarioEdges[Len(ScenarioEdges)][1],
                   ScenarioEdges[Len(ScenarioEdges)][2], NoExc)
    /\ pc = "idle"
    /\ results = <<>>
    /\ it = 1
    /\ frames = <<>>
    /\ log = <<>>
    /\ Imported

ScenarioNext ==
    \/ Run
    \/ RootLoop
    \/ ExecuteNode
    \/ ChildLoop

ScenarioSpec == ScenarioInit /\ [][ScenarioNext]_vars

(* ------------------------------------------------------------------ *)
(* A pipeline with two roots: r1 fans out to t1 and t2, t1 fans out to *)
(* t3 and to the merge m, whose second parent is r2.  Its nodes are    *)
(* registered by add_node in any order before the edges are added in   *)
(* one of two orders (the children of r1 and of t1 swapped, the        *)
(* parents of m kept), and it is run once.                             *)
(* ------------------------------------------------------------------ *)
OrderPool == {"r1", "r2", "t1", "t2", "t3", "m"}

OrderScripts ==
    { << <<"r1", "t1">>, <<"r1", "t2">>, <<"t1", "m">>, <<"t1", "t3">>, <<"r2", "m">> >>,
      << <<"r1", "t2">>, <<"r1", "t1">>, <<"t1", "t3">>, <<"t1", "m">>, <<"r2", "m">> >> }

\* the orders add_node may be called in for the objects of S
Orders(S) ==
    {s \in [1..Cardinality(S) -> S] : \A i, j \in 1..Cardinality(S) : s[i] = s[j] => i = j}

\* the graph g after add_node for the first n objects of order
RECURSIVE AddNodes(_, _, _)
AddNodes(g, order, n) ==
    IF n = 0 THEN g
    ELSE [AddNodes(g, order, n - 1) EXCEPT !.nodes = add_node(@, order[n])]

\* the graph g after add_edge for the first n pairs of script
RECURSIVE AddEdges(_, _, _)
AddEdges(g, script, n) ==
    IF n = 0 THEN g
    ELSE add_edge(AddEdges(g, script, n - 1), script[n][1], script[n][2])

OrderInit ==
    /\ pool = {o \in OrderPool : Construct(o) = NoExc}
    /\ rejected = {o \in OrderPool : Construct(o) # NoExc}
    /\ \E order \in Orders(OrderPool), script \in OrderScripts :
          LET g == AddEdges(AddNodes(EmptyDAG, order, Len(order)), script, Len(script)) IN
          /\ nodes = g.nodes
          /\ parents = g.parents
          /\ children = g.children
          /\ calls = Len(order) + Len(script)
          /\ last = Call("add_edge", script[Len(script)][1], script[Len(script)][2], NoExc)
    /\ params = [o \in Objs |-> InitParams(o)]
    /\ pc = "idle"
    /\ results = <<>>
    /\ it = 1
    /\ frames = <<>>
    /\ log = <<>>
    /\ Imported

OrderNext ==
    \/ FirstRun
    \/ RootLoop
    \/ ExecuteNode
    \/ ChildLoop

OrderSpec == OrderInit /\ [][OrderNext]_vars

(* ------------------------------------------------------------------ *)
(* Readers and writers.  A path is a string; splitext gives the text   *)
(* after its last dot, lower() folds the case of a format tag.         *)
(* ------------------------------------------------------------------ *)
Paths == {"a.csv", "a.CSV", "a.xlsx", "a", "b.json"}

\* os.path.splitext(path)[1][1:]
splitext(path) ==
    CASE path = "a.csv" -> "csv"
      [] path = "a.CSV" -> "CSV"
      [] path = "a.xlsx" -> "xlsx"
      [] path = "b.json" -> "json"
      [] OTHER -> ""

\* the format tags callers pass, registered or not, in any spelling
Tags == {"csv", "CSV", "Json", "json", "xlsx", "delta", ""}

\* str.lower()
lower(fmt) ==
    CASE fmt = "CSV" -> "csv"
      [] fmt = "Json" -> "json"
      [] OTHER -> fmt

\* what a call did: the exception it raised and the one it was raised from,
\* the format tag its message names, and its return value
Result(exc, names, out) == [exc |-> exc, cause |-> NoExc, names |-> names, out |-> out]

\* ReaderRegistry.register_reader storing the reader whatever is registered
register_reader_overwrite(reg, fn, fmt) ==
    [exc |-> NoExc, reg |-> [x \in DOMAIN reg \cup {fmt} |-> IF x = fmt THEN fn ELSE reg[x]]]

\* ReaderRegistry.register_reader, called by Reader.__init__, and
\* writers.register_lazy_writer: the exception raised and the registry after
register_reader(reg, fn, fmt) ==
    IF fmt \in DOMAIN reg
    THEN [exc |-> "ValueError", reg |-> reg]
    ELSE [exc |-> NoExc, reg |-> [x \in DOMAIN reg \cup {fmt} |-> IF x = fmt THEN fn ELSE reg[x]]]

register_lazy_writer(reg, name, func) ==
    IF name \in DOMAIN reg
    THEN [exc |-> "ValueError", reg |-> reg]
    ELSE [exc |-> NoExc, reg |-> [x \in DOMAIN reg \cup {name} |-> IF x = name THEN func ELSE reg[x]]]

\* ReaderRegistry.get_reader: cls._instances.get(fmt)
get_reader(fmt) == IF fmt \in DOMAIN instances THEN instances[fmt] ELSE "None"

\* PolarsFileReader.read under path_exists_decorator; exists is what
\* os.path.exists answers, engine_ok whether the scan function succeeds
PolarsFileReader_read(source, exists, engine_ok) ==
    IF ~exists THEN Result("FileNotFoundError", "", <<"raised">>)
    ELSE IF get_reader(splitext(source)) = "None"
    THEN Result("AttributeError", "", <<"raised">>)
    ELSE IF ~engine_ok THEN Result("EngineError", "", <<"raised">>)
    ELSE Result(NoExc, "", <<get_reader(splitext(source)), source>>)

\* PolarsFileWriter.get_lazy_writer
get_lazy_writer(fmt) ==
    IF fmt \in DOMAIN LazyWriterMethods
    THEN Result(NoExc, "", LazyWriterMethods[fmt])
    ELSE Result("ValueError", fmt, <<"raised">>)

\* PolarsFileWriter.write
PolarsFileWriter_write(df, path, engine_ok) ==
    IF get_lazy_writer(splitext(path)).exc # NoExc THEN get_lazy_writer(splitext(path))
    ELSE IF df = <<"None">> THEN Result("AttributeError", "", <<"raised">>)
    ELSE IF ~engine_ok THEN Result("EngineError", "", <<"raised">>)
    ELSE Result(NoExc, "", <<"None">>)

\* client.LAZY_SCAN_METHODS and client.LAZY_SINK_METHODS (utils.py holds the
\* same functions over the four formats of Formats)
LAZY_SCAN_METHODS ==
    [fmt \in Formats \cup {"delta", "iceberg", "arrow"} |->
        CASE fmt = "delta" -> "scan_delta"
          [] fmt = "iceberg" -> "scan_iceberg"
          [] fmt = "arrow" -> "scan_pyarrow_dataset"
          [] OTHER -> ScanMethod(fmt)]

LAZY_SINK_METHODS == [fmt \in Formats |-> SinkMethod(fmt)]

\* the lookup of fmt in the table methods, as get_scan_method and
\* get_sink_method do it: membership of fmt.lower(), then methods[fmt]
get_method(methods, fmt) ==
    IF lower(fmt) \notin DOMAIN methods THEN Result("ValueError", fmt, <<"raised">>)
    ELSE IF fmt \notin DOMAIN methods THEN Result("KeyError", fmt, <<"raised">>)
    ELSE Result(NoExc, "", methods[fmt])

get_scan_method(fmt) == get_method(LAZY_SCAN_METHODS, fmt)

get_sink_method(fmt) == get_method(LAZY_SINK_METHODS, fmt)

\* the frame the DAG and the linear pipeline keep while files are handled
FileFrame ==
    UNCHANGED <<pool, rejected, nodes, parents, children, params, calls, pc, results, it,
                frames, log, linear, trace>>

\* Reader(fn, fmt): the constructor registers the new reader
NewReader(fn, fmt) ==
    /\ instances' = register_reader(instances, fn, fmt).reg
    /\ last' = [op |-> "Reader", a |-> fmt, b |-> fn,
                exc |-> register_reader(instances, fn, fmt).exc]
    /\ UNCHANGED LazyWriterMethods
    /\ FileFrame

RegisterLazyWriter(name, func) ==
    /\ LazyWriterMethods' = register_lazy_writer(LazyWriterMethods, name, func).reg
    /\ last' = [op |-> "register_lazy_writer", a |-> name, b |-> func,
                exc |-> register_lazy_writer(LazyWriterMethods, name, func).exc]
    /\ UNCHANGED instances
    /\ FileFrame

\* ReadTask(task_id, source).execute()
ReadExecute(source, exists, engine_ok) ==
    /\ last' = [op |-> "ReadTask.execute", a |-> source, b |-> NoObj, exists |-> exists,
                res |-> try_except(PolarsFileReader_read(source, exists, engine_ok))]
    /\ UNCHANGED <<instances, LazyWriterMethods>>
    /\ FileFrame

\* WriteTask(task_id, file_path).execute(df)
WriteExecute(df, file_path, engine_ok) ==
    /\ last' = [op |-> "WriteTask.execute", a |-> file_path, b |-> NoObj,
                res |-> try_except(PolarsFileWriter_write(df, file_path, engine_ok))]
    /\ UNCHANGED <<instances, LazyWriterMethods>>
    /\ FileFrame

GetScanMethod(fmt) ==
    /\ last' = [op |-> "get_scan_method", a |-> fmt, b |-> NoObj, res |-> get_scan_method(fmt)]
    /\ UNCHANGED <<instances, LazyWriterMethods>>
    /\ FileFrame

GetSinkMethod(fmt) ==
    /\ last' = [op |-> "get_sink_method", a |-> fmt, b |-> NoObj, res |-> get_sink_method(fmt)]
    /\ UNCHANGED <<instances, LazyWriterMethods>>
    /\ FileFrame

\* the format tags and functions callers register readers and writers with
RegTags == {"csv", "CSV", "xlsx"}
ScanFns == {"scan_csv", "read_excel"}
SinkFns == {"sink_csv", "write_excel"}

FileNext ==
    \/ \E fn \in ScanFns, fmt \in RegTags : NewReader(fn, fmt)
    \/ \E name \in RegTags, func \in SinkFns : RegisterLazyWriter(name, func)
    \/ \E source \in Paths, exists \in BOOLEAN, engine_ok \in BOOLEAN :
          ReadExecute(source, exists, engine_ok)
    \/ \E df \in {<<"scan_csv", "a.csv">>, <<"None">>}, file_path \in Paths,
          engine_ok \in BOOLEAN : WriteExecute(df, file_path, engine_ok)
    \/ \E fmt \in Tags : GetScanMethod(fmt)
    \/ \E fmt \in Tags : GetSinkMethod(fmt)

\* the package just imported: no DAG built yet, the registries as declared
FileSpec == Init /\ [][FileNext]_vars

(* ------------------------------------------------------------------ *)
(* Linear pipelines: client.Pipeline and polars_backend.execute.       *)
(* An operation object is named by a string: two read operations, two  *)
(* transforms and "tfz", a transform whose fn is no LazyFrame method,  *)
(* two write operations, "op0", an instance of the base class          *)
(* Operation, and "obj", an object that is no Operation.               *)
(* ------------------------------------------------------------------ *)
MaxOps == 3

Operations == {"rd1", "rd2", "tf1", "tf2", "tfz", "wr1", "wr2", "op0", "obj"}

\* the class of the object
OpClass(op) ==
    CASE op \in {"rd1", "rd2"} -> "ReadOperation"
      [] op \in {"tf1", "tf2", "tfz"} -> "TransformOperation"
      [] op \in {"wr1", "wr2"} -> "WriteOperation"
      [] op = "op0" -> "Operation"
      [] OTHER -> "object"

\* isinstance(op, Operation)
IsOperation(op) == OpClass(op) # "object"

\* the fn of a TransformOperation
OpFn(op) ==
    CASE op = "tf1" -> "filter"
      [] op = "tf2" -> "limit"
      [] OTHER -> "frobnicate"

\* the sequences of at most MaxOps objects a caller passes
OpSeqs == UNION {[1..n -> Operations] : n \in 0..MaxOps}

\* one executed step: the operation, the handle it was given (<<>> for a
\* read), what it returned and the exception it raised
Step(op, arg, out, exc) == [op |-> op, arg |-> arg, out |-> out, exc |-> exc]

\* op.execute(...) of client.py, op(...) of polars_backend.py: a read
\* scans, a transform calls getattr(df, fn), a write calls the sink method
\* of df; engine_ok is the engine's answer
OpExecute(op, df, engine_ok) ==
    CASE OpClass(op) = "ReadOperation" ->
           IF engine_ok THEN Step(op, <<>>, <<"scan", op>>, NoExc)
           ELSE Step(op, <<>>, <<"raised">>, "EngineError")
      [] OpClass(op) = "TransformOperation" ->
           IF OpFn(op) \notin LazyFrameAttrs THEN Step(op, df, <<"raised">>, "AttributeError")
           ELSE IF engine_ok THEN Step(op, df, <<OpFn(op), op>> \o df, NoExc)
           ELSE Step(op, df, <<"raised">>, "EngineError")
      [] OTHER ->
           IF engine_ok THEN Step(op, df, <<"None">>, NoExc)
           ELSE Step(op, df, <<"raised">>, "EngineError")

\* Pipeline._dispatch: the loop over operations[i..] filling op_map
RECURSIVE dispatch(_, _, _)
dispatch(operations, i, op_map) ==
    IF i > Len(operations) THEN [exc |-> NoExc, op_map |-> op_map]
    ELSE IF OpClass(operations[i]) = "Operation"
    THEN [exc |-> "AttributeError", op_map |-> op_map]
    ELSE IF OpClass(operations[i]) = "ReadOperation"
    THEN dispatch(operations, i + 1, [op_map EXCEPT !.reader = operations[i]])
    ELSE IF OpClass(operations[i]) = "TransformOperation"
    THEN dispatch(operations, i + 1, [op_map EXCEPT !.transformers = Append(@, operations[i])])
    ELSE dispatch(operations, i + 1, [op_map EXCEPT !.writers = Append(@, operations[i])])

\* client.Pipeline.__init__: the exception raised and the object built
Pipeline_init(operations) ==
    IF \E i \in 1..Len(operations) : ~IsOperation(operations[i])
    THEN [exc |-> "ValueError", obj |-> NoPipeline]
    ELSE LET d == dispatch(operations, 1, [NoPipeline EXCEPT !.operations = operations]) IN
         IF d.exc # NoExc THEN [exc |-> d.exc, obj |-> NoPipeline]
         ELSE IF d.op_map.reader = "None" THEN [exc |-> "ValueError", obj |-> NoPipeline]
         ELSE [exc |-> NoExc, obj |-> d.op_map]

\* a loop "for t in ops[i..]" of Pipeline.run: every operation is executed
\* on df; keep says whether its result becomes df; the engine fails at the
\* step numbered bad.  The result is the exception, df and the steps made.
RECURSIVE RunLoop(_, _, _, _, _, _)
RunLoop(ops, i, df, steps, keep, bad) ==
    IF i > Len(ops) THEN [exc |-> NoExc, df |-> df, steps |-> steps]
    ELSE LET st == OpExecute(ops[i], df, Len(steps) + 1 # bad) IN
         IF st.exc # NoExc THEN [exc |-> st.exc, df |-> df, steps |-> Append(steps, st)]
         ELSE RunLoop(ops, i + 1, IF keep THEN st.out ELSE df, Append(steps, st), keep, bad)

\* Pipeline.run executing the transforms and the writes as one loop over
\* the operations in the order given
Pipeline_run_asgiven(p, bad) ==
    LET rd == OpExecute(p.reader, <<>>, bad # 1) IN
    IF rd.exc # NoExc THEN [exc |-> rd.exc, ret |-> <<"raised">>, steps |-> <<rd>>]
    ELSE LET rest == SelectSeq(p.operations, LAMBDA op : OpClass(op) # "ReadOperation")
             r == RunLoop(rest, 1, rd.out, <<rd>>, FALSE, bad)
         IN [exc |-> r.exc, ret |-> IF r.exc = NoExc THEN r.df ELSE <<"raised">>, steps |-> r.steps]

\* client.Pipeline.run: the exception raised, the value returned and the
\* steps executed
Pipeline_run(p, bad) ==
    LET rd == OpExecute(p.reader, <<>>, bad # 1) IN
    IF rd.exc # NoExc THEN [exc |-> rd.exc, ret |-> <<"raised">>, steps |-> <<rd>>]
    ELSE LET t == RunLoop(p.transformers, 1, rd.out, <<rd>>, TRUE, bad) IN
         IF t.exc # NoExc THEN [exc |-> t.exc, ret |-> <<"raised">>, steps |-> t.steps]
         ELSE LET w == RunLoop(p.writers, 1, t.df, t.steps, FALSE, bad) IN
              IF w.exc # NoExc THEN [exc |-> w.exc, ret |-> <<"raised">>, steps |-> w.steps]
              ELSE [exc |-> NoExc, ret |-> t.df, steps |-> w.steps]

\* the frame the DAG and the registries keep while a linear pipeline is used
LinearFrame ==
    UNCHANGED <<pool, rejected, nodes, parents, children, params, calls, pc, results, it,
                frames, log, instances, LazyWriterMethods>>

\* p = Pipeline(*operations): a failed call leaves no pipeline object
NewPipeline(operations) ==
    /\ last.op = "init"
    /\ last' = [op |-> "Pipeline", a |-> operations, b |-> NoObj,
                exc |-> Pipeline_init(operations).exc]
    /\ linear' = Pipeline_init(operations).obj
    /\ trace' = <<>>
    /\ LinearFrame

\* p.run()
RunPipeline(bad) ==
    /\ last.op \in {"Pipeline", "Pipeline.run"}
    /\ linear # NoPipeline
    /\ last' = [op |-> "Pipeline.run", a |-> NoObj, b |-> NoObj,
                exc |-> Pipeline_run(linear, bad).exc, ret |-> Pipeline_run(linear, bad).ret]
    /\ trace' = Pipeline_run(linear, bad).steps
    /\ UNCHANGED linear
    /\ LinearFrame

ClientNext ==
    \/ \E operations \in OpSeqs : NewPipeline(operations)
    \/ \E bad \in 0..(MaxOps + 1) : RunPipeline(bad)

\* a caller builds one linear pipeline and runs it any number of times
ClientSpec == Init /\ [][ClientNext]_vars

\* the loop "for step in steps" of polars_backend.execute over
\* pipeline[i..]: a transform is called on df and its result becomes df, a
\* write is remembered in write_step, any other object is passed over
RECURSIVE ExecuteLoop(_, _, _, _, _, _)
ExecuteLoop(pipeline, i, df, write_step, steps, bad) ==
    IF i > Len(pipeline)
    THEN [exc |-> NoExc, df |-> df, write_step |-> write_step, steps |-> steps]
    ELSE IF OpClass(pipeline[i]) = "TransformOperation"
    THEN LET st == OpExecute(pipeline[i], df, Len(steps) + 1 # bad) IN
         IF st.exc # NoExc
         THEN [exc |-> st.exc, df |-> df, write_step |-> write_step, steps |-> Append(steps, st)]
         ELSE ExecuteLoop(pipeline, i + 1, st.out, write_step, Append(steps, st), bad)
    ELSE IF OpClass(pipeline[i]) = "WriteOperation"
    THEN ExecuteLoop(pipeline, i + 1, df, pipeline[i], steps, bad)
    ELSE ExecuteLoop(pipeline, i + 1, df, write_step, steps, bad)

\* polars_backend.execute(pipeline): the exception raised, the value
\* returned and the steps executed; next(steps) of an empty pipeline raises
\* StopIteration
backend_execute(pipeline, bad) ==
    IF pipeline = <<>> THEN [exc |-> "StopIteration", ret |-> <<"raised">>, steps |-> <<>>]
    ELSE IF OpClass(pipeline[1]) # "ReadOperation"
    THEN [exc |-> "ValueError", ret |-> <<"raised">>, steps |-> <<>>]
    ELSE LET rd == OpExecute(pipeline[1], <<>>, bad # 1) IN
         IF rd.exc # NoExc THEN [exc |-> rd.exc, ret |-> <<"raised">>, steps |-> <<rd>>]
         ELSE LET r == ExecuteLoop(pipeline, 2, rd.out, "None", <<rd>>, bad) IN
              IF r.exc # NoExc THEN [exc |-> r.exc, ret |-> <<"raised">>, steps |-> r.steps]
              ELSE IF r.write_step = "None" THEN [exc |-> NoExc, ret |-> r.df, steps |-> r.steps]
              ELSE LET w == OpExecute(r.write_step, r.df, Len(r.steps) + 1 # bad) IN
                   [exc |-> w.exc, ret |-> w.out, steps |-> Append(r.steps, w)]

\* execute(pipeline): one call on a sequence of objects
BackendExecute(pipeline, bad) ==
    /\ last.op = "init"
    /\ last' = [op |-> "execute", a |-> pipeline, b |-> NoObj,
                exc |-> backend_execute(pipeline, bad).exc,
                ret |-> backend_execute(pipeline, bad).ret]
    /\ trace' = backend_execute(pipeline, bad).steps
    /\ UNCHANGED linear
    /\ LinearFrame

BackendNext == \E pipeline \in OpSeqs : \E bad \in 0..(MaxOps + 1) : BackendExecute(pipeline, bad)

\* a caller hands one sequence of objects to polars_backend.execute
BackendSpec == Init /\ [][BackendNext]_vars

(* ------------------------------------------------------------------ *)
(* A caller with two readers and a transform who builds a pipeline,    *)
(* asks for its orphan nodes or looks up a task id at any moment       *)
(* outside run(), and runs it once.                                    *)
(* ------------------------------------------------------------------ *)
QueryPool == {"r1", "r2", "t1"}

\* a call of find_orphan_nodes(): last records the call and the list returned
FindOrphanNodes ==
    /\ pc # "running"
    /\ last' = [op |-> "find_orphan_nodes", a |-> NoObj, b |-> NoObj, exc |-> NoExc,
                ret |-> find_orphan_nodes]
    /\ UNCHANGED <<iovars, pool, rejected, nodes, parents, children, params, calls, pc, results,
                   it, frames, log>>

\* the task ids the caller looks up
LookupIds == {"r1", "t1", "zz"}

\* a call of dag[task_id]: last records the call and its outcome
GetItem(task_id) ==
    /\ pc # "running"
    /\ last' = [op |-> "getitem", a |-> task_id, b |-> NoObj,
                exc |-> getitem(nodes, task_id).exc, item |-> getitem(nodes, task_id).ret]
    /\ UNCHANGED <<iovars, pool, rejected, nodes, parents, children, params, calls, pc, results,
                   it, frames, log>>

QueryInit ==
    /\ pool = {o \in QueryPool : Construct(o) = NoExc}
    /\ rejected = {o \in QueryPool : Construct(o) # NoExc}
    /\ nodes = <<>>
    /\ parents = [o \in Objs |-> <<>>]
    /\ children = [o \in Objs |-> <<>>]
    /\ params = [o \in Objs |-> InitParams(o)]
    /\ calls = 0
    /\ last = Call("init", NoObj, NoObj, NoExc)
    /\ pc = "idle"
    /\ results = <<>>
    /\ it = 1
    /\ frames = <<>>
    /\ log = <<>>
    /\ Imported

QueryNext ==
    \/ \E task \in Objs : AddNode(task)
    \/ \E parent \in Objs, child \in Objs : AddEdge(parent, child)
    \/ FindOrphanNodes
    \/ \E task_id \in LookupIds : GetItem(task_id)
    \/ FirstRun
    \/ RootLoop
    \/ ExecuteNode
    \/ ChildLoop

QuerySpec == QueryInit /\ [][QueryNext]_vars

(* ------------------------------------------------------------------ *)
(* Graph notions the properties are stated with                       *)
(* ------------------------------------------------------------------ *)
Registered == Range(nodes)

\* the ids an edge leads to from the node registered under id
Succ(id) == {TaskId(c) : c \in Range(children[NodeAt(nodes, id)])}

RECURSIVE Closure(_)
Closure(S) ==
    LET T == S \cup UNION {Succ(x) : x \in S}
    IN IF T = S THEN S ELSE Closure(T)

\* the ids reachable from id along one or more edges
Reach(id) == Closure(Succ(id))

OnCycle(id) == id \in Reach(id)

\* what is left of the ids S when the ids without an edge into S are taken
\* away again and again
RECURSIVE Strip(_)
Strip(S) ==
    LET leaves == {id \in S : Succ(id) \cap S = {}}
    IN IF leaves = {} THEN S ELSE Strip(S \ leaves)

\* some registered node lies on a cycle
IsCyclic == Strip(Ids(nodes)) # {}

\* the execute invocations of run number r, as the ids in call order
Invoked(r) == [k \in 1..Len(log[r]) |-> TaskId(log[r][k].node)]

\* what an invocation was given, what it handed to the engine and what it returned
Effective(e) ==
    [node |-> e.node, args |-> e.args, prim |-> e.prim, how |-> e.how, out |-> e.out]

RunOk(r) == \A k \in 1..Len(log[r]) : log[r][k].exc = NoExc

AllExecuted ==
    \A o \in Registered :
        /\ TaskId(o) \in DOMAIN results
        /\ \E k \in 1..Len(log[Len(log)]) :
              log[Len(log)][k].node = o /\ log[Len(log)][k].exc = NoExc

IsPrefix(s, t) == Len(s) <= Len(t) /\ s = SubSeq(t, 1, Len(s))

\* one root, every node with at most one parent and one child, no cycle
IsChain ==
    /\ Len(nodes) >= 2
    /\ Cardinality({o \in Registered : is_root(o)}) = 1
    /\ \A o \in Registered : Len(parents[o]) <= 1 /\ Len(children[o]) <= 1
    /\ ~IsCyclic

RECURSIVE ChainFrom(_)
ChainFrom(o) ==
    IF children[o] = <<>> THEN <<TaskId(o)>>
    ELSE <<TaskId(o)>> \o ChainFrom(NodeAt(nodes, TaskId(children[o][1])))

ChainOrder == ChainFrom(CHOOSE o \in Registered : is_root(o))

(* ------------------------------------------------------------------ *)
(* Properties                                                         *)
(* ------------------------------------------------------------------ *)

\* C1: a run on an acyclic graph comes to an end, and when it returns (no
\* execute raised) every registered node has been executed in that run, so no
\* fan-in node stays deferred.
C1_EveryNodeExecuted ==
    /\ [](pc = "returned" => AllExecuted)
    /\ []<>(pc # "running")

\* a returned run over two roots feeding a fan-in node at unequal depth,
\* the shallow branch inserted and walked first
C1_Witness ==
    /\ pc = "returned"
    /\ AllExecuted
    /\ \E o \in Registered :
          /\ is_fan_in(o)
          /\ \E p, q \in Range(parents[o]) :
                /\ is_root(NodeAt(nodes, TaskId(p)))
                /\ ~is_root(NodeAt(nodes, TaskId(q)))
                /\ TaskId(nodes[1]) = TaskId(p)
    /\ Cardinality({o \in Registered : is_root(o)}) >= 2

\* C2: within one run no node's execute is invoked twice.
C2_AtMostOnce ==
    \A r \in 1..Len(log) :
        \A j, k \in 1..Len(log[r]) :
            TaskId(log[r][j].node) = TaskId(log[r][k].node) => j = k

\* the visitor is entered for a node that already has its result
C2_Witness ==
    /\ pc = "running"
    /\ frames # <<>>
    /\ Top.i = 0
    /\ TaskId(Top.node) \in DOMAIN results
    /\ is_fan_in(Top.node)

\* C3: an execute is invoked only after the execute of every parent of the
\* node has returned in the same run; on a single-root linear chain the
\* invocations follow the chain order.
C3_ParentsFirst ==
    /\ \A r \in 1..Len(log) : \A k \in 1..Len(log[r]) :
          \A p \in Range(parents[log[r][k].node]) :
              \E j \in 1..(k - 1) :
                  /\ TaskId(log[r][j].node) = TaskId(p)
                  /\ log[r][j].exc = NoExc
    /\ IsChain =>
          /\ \A r \in 1..Len(log) : IsPrefix(Invoked(r), ChainOrder)
          /\ pc = "returned" => Invoked(Len(log)) = ChainOrder

\* a returned run over the chain read -> transform -> write, wired from its end
C3_Witness ==
    /\ pc = "returned"
    /\ IsChain
    /\ Len(nodes) = 3
    /\ Invoked(Len(log)) = ChainOrder
    /\ TaskType(nodes[1]) # "read"

\* C4: run() on a graph with a directed cycle raises PipelineCycleError and
\* has invoked no execute.
C4_CycleRaisesBeforeExecute ==
    (last.op = "run" /\ IsCyclic) =>
        /\ pc = "PipelineCycleError"
        /\ \A r \in 1..Len(log) : log[r] = <<>>

\* the error is raised for a cycle without a root that sits next to a branch
\* with its own root and no cycle
C4_Witness ==
    /\ pc = "PipelineCycleError"
    /\ \E o \in Registered :
          /\ is_root(o)
          /\ children[o] # <<>>
          /\ \A id \in Reach(TaskId(o)) : ~OnCycle(id)

\* C5: on every graph built by add_node and add_edge calls, has_cycle is true
\* exactly when the graph has a directed cycle.
C5_HasCycleExact == pc = "idle" => (has_cycle <=> IsCyclic)

\* a cycle of two or more nodes that the first inserted node is not part of
C5_Witness ==
    /\ has_cycle
    /\ Len(nodes) >= 3
    /\ ~OnCycle(TaskId(nodes[1]))
    /\ \A id \in Ids(nodes) : id \notin Succ(id)

\* C6: add_node with a registered id changes nothing in the graph; with a new
\* id it appends that node and changes no parents or children list.
C6_AddNodeIdempotent ==
    [][\A task \in Objs : AddNode(task) =>
          /\ UNCHANGED <<parents, children>>
          /\ IF TaskId(task) \in Ids(nodes)
             THEN UNCHANGED nodes
             ELSE nodes' = Append(nodes, task)]_vars

\* add_node was called with an object whose id another object holds
C6_Witness ==
    /\ last.op = "add_node"
    /\ \E o \in Registered : TaskId(o) = TaskId(last.a) /\ o # last.a

\* C7: add_edge(node, node) raises a structural error and inserts no edge.
C7_SelfEdgeRejected ==
    /\ (last.op = "add_edge" /\ last.a = last.b) => last.exc = "StructuralError"
    /\ \A o \in Registered :
          /\ TaskId(o) \notin {TaskId(c) : c \in Range(children[o])}
          /\ TaskId(o) \notin {TaskId(p) : p \in Range(parents[o])}

\* C8: add_edge registers the absent endpoints, appends the child to the
\* registered parent's children and the parent to the registered child's
\* parents, changes nothing else and raises nothing, also when the edge
\* closes a cycle, which has_cycle then reports.
C8_AddEdgeFrame ==
    /\ [][\A parent \in pool, child \in pool :
            (last'.op = "add_edge" /\ last'.a = parent /\ last'.b = child) =>
            LET new == SelectSeq(<<parent, child>>, LAMBDA o : TaskId(o) \notin Ids(nodes))
                added == IF Len(new) = 2 /\ TaskId(parent) = TaskId(child)
                         THEN <<parent>> ELSE new
                p == NodeAt(nodes', TaskId(parent))
                c == NodeAt(nodes', TaskId(child))
            IN /\ nodes' = nodes \o added
               /\ children'[p] = Append(children[p], child)
               /\ parents'[c] = Append(parents[c], parent)
               /\ \A o \in Objs : o # p => children'[o] = children[o]
               /\ \A o \in Objs : o # c => parents'[o] = parents[o]
               /\ last'.exc = NoExc]_vars
    /\ [](last.op = "add_edge" =>
            /\ last.exc = NoExc
            /\ OnCycle(TaskId(last.a)) => has_cycle)

\* the last add_edge closed a cycle of two or more nodes in an acyclic graph
C8_Witness ==
    /\ last.op = "add_edge"
    /\ last.exc = NoExc
    /\ TaskId(last.a) # TaskId(last.b)
    /\ OnCycle(TaskId(last.a))
    /\ Count(children[NodeAt(nodes, TaskId(last.a))], last.b) = 1
    /\ has_cycle

\* C9: a second run of the unchanged pipeline invokes every node with the
\* inputs and configuration of the first run and produces the same outputs.
C9_RerunIdentical ==
    (Len(log) = 2 /\ pc = "returned" /\ RunOk(1) /\ RunOk(2)) =>
        /\ Len(log[2]) = Len(log[1])
        /\ \A k \in 1..Len(log[1]) : Effective(log[2][k]) = Effective(log[1][k])

\* C10: a merge whose configured direction is right, executed with (A, B),
\* calls join with B as left and A as right operand, direction left and the
\* same key, and the result of that call is its output.
C10_MergeSwap ==
    \A r \in 1..Len(log) : \A k \in 1..Len(log[r]) :
        LET e == log[r][k] IN
        (TaskType(e.node) = "merge" /\ e.cfg = "right" /\ Len(e.args) = 2
            /\ e.args[2] # None) =>
            /\ e.prim = <<e.args[2], e.args[1]>>
            /\ e.how = "left"
            /\ e.exc = NoExc =>
                  /\ e.out = <<"join", "left", InitParams(e.node).on>>
                                \o e.args[2] \o e.args[1]
                  /\ r = Len(log) => results[TaskId(e.node)] = e.out

\* a right merge has joined two different operands
C10_Witness ==
    \E r \in 1..Len(log) : \E k \in 1..Len(log[r]) :
        /\ TaskType(log[r][k].node) = "merge"
        /\ log[r][k].cfg = "right"
        /\ log[r][k].exc = NoExc
        /\ Len(log[r][k].args) = 2
        /\ log[r][k].args[1] # log[r][k].args[2]

\* the calls of the run in progress, or of the last run
Cur == log[Len(log)]

\* C11: a failing node.execute ends run() at once: the failing call is the
\* last call of its run and the only call of that node, run() has left with
\* the error, and the results of the nodes executed before are still there.
C11_FailureAborts ==
    \A r \in 1..Len(log) : \A k \in 1..Len(log[r]) :
        log[r][k].exc # NoExc =>
            /\ k = Len(log[r])
            /\ \A j \in 1..Len(log[r]) :
                  TaskId(log[r][j].node) = TaskId(log[r][k].node) => j = k
            /\ r = Len(log) =>
                  /\ pc = "TaskExecutionError"
                  /\ frames = <<>>
                  /\ TaskId(log[r][k].node) \notin DOMAIN results
                  /\ \A j \in 1..(k - 1) :
                        /\ TaskId(log[r][j].node) \in DOMAIN results
                        /\ results[TaskId(log[r][j].node)] = log[r][j].out

\* a run that failed in a node with children, after another node had been
\* executed and before a later root was visited
C11_Witness ==
    /\ pc = "TaskExecutionError"
    /\ Len(Cur) >= 2
    /\ Cur[Len(Cur)].exc # NoExc
    /\ children[Cur[Len(Cur)].node] # <<>>
    /\ \E o \in Registered :
          /\ is_root(o)
          /\ \A k \in 1..Len(Cur) : Cur[k].node # o

\* the number of positional inputs the execute method of o's class takes
Arity(o) ==
    CASE TaskType(o) = "read" -> 0
      [] TaskType(o) = "merge" -> 2
      [] OTHER -> 1

\* the exceptions a node's execute raises before they are wrapped
Originals == {"TypeError", "AttributeError", "EngineError"}

\* C12: every exception of a node's execute, the wrong number of inputs
\* included, leaves run() as a TaskExecutionError whose cause is the
\* original exception; run() ends in no other error but the cycle error.
C12_OnlyTaskExecutionError ==
    /\ pc \in {"idle", "running", "returned", "PipelineCycleError", "TaskExecutionError"}
    /\ pc = "TaskExecutionError" =>
          /\ Cur # <<>>
          /\ Cur[Len(Cur)].exc = "TaskExecutionError"
    /\ \A r \in 1..Len(log) : \A k \in 1..Len(log[r]) :
          LET e == log[r][k] IN
          /\ e.exc \in {NoExc, "TaskExecutionError"}
          /\ e.exc = NoExc => e.cause = NoExc
          /\ e.exc = "TaskExecutionError" => e.cause \in Originals
          /\ Len(e.args) # Arity(e.node) =>
                /\ e.exc = "TaskExecutionError"
                /\ e.cause = "TypeError"

\* run() ended by a node that was called with the wrong number of inputs
C12_Witness ==
    /\ pc = "TaskExecutionError"
    /\ Cur # <<>>
    /\ Len(Cur[Len(Cur)].args) # Arity(Cur[Len(Cur)].node)
    /\ Cur[Len(Cur)].exc = "TaskExecutionError"
    /\ Cur[Len(Cur)].cause = "TypeError"

\* the objects the calls of the logged runs were made on
Called == UNION {{log[r][k].node : k \in 1..Len(log[r])} : r \in 1..Len(log)}

\* C13: the constructor of a Transform node raises the unsupported-operation
\* error exactly for the names outside {filter, join, select, sort, limit};
\* an object whose constructor raised is never registered in a DAG, never an
\* endpoint of an edge and never executed by run().
C13_ClosedOperationSet ==
    /\ \A f \in FuncNames :
          TransformTask_init(f) =
              IF f \in {"filter", "join", "select", "sort", "limit"}
              THEN NoExc ELSE "ValueError"
    /\ \A o \in pool \cup Registered \cup Called :
          TaskType(o) = "transform" =>
              Func(o) \in {"filter", "join", "select", "sort", "limit"}
    /\ \A o \in rejected :
          /\ TaskType(o) = "transform"
          /\ Func(o) \notin {"filter", "join", "select", "sort", "limit"}
          /\ o \notin pool \cup Registered \cup Called
          /\ \A x \in Objs : o \notin Range(parents[x]) \cup Range(children[x])

\* one constructor call raised, and a Transform node built by another one
\* has been executed by a run that returned
C13_Witness ==
    /\ rejected # {}
    /\ pc = "returned"
    /\ \E k \in 1..Len(Cur) :
          /\ TaskType(Cur[k].node) = "transform"
          /\ Cur[k].exc = NoExc

\* the objects handed to the last construction call
LastArgs == {last.a, last.b} \ {NoObj}

\* C14: a construction call that hands over an object whose id is registered
\* for a different object raises a structural error.
C14_DuplicateIdRejected ==
    (/\ last.op \in {"add_node", "add_edge"}
     /\ \E x \in LastArgs : \E o \in Registered : o # x /\ TaskId(o) = TaskId(x))
        => last.exc = "StructuralError"

\* the ids of root1, filter, root2, limit44, merge, limit10, write
ScenarioOrder == <<"r1", "t1", "r2", "t2", "m", "t3", "w1">>

\* C15: on the two-root fan-in pipeline every run calls the nodes in the
\* order root1, filter, root2, limit44, merge, limit10, write, to the end
\* when run() returns; merge is not called before limit44 (it is passed over
\* in root1's traversal) and gets (filter's output, limit44's output); write
\* is called once, last.
C15_ScenarioOrder ==
    \A r \in 1..Len(log) :
        /\ IsPrefix(Invoked(r), ScenarioOrder)
        /\ (r = Len(log) /\ pc = "returned") => Invoked(r) = ScenarioOrder
        /\ Len(log[r]) >= 5 =>
              /\ log[r][5].node = "m"
              /\ log[r][5].args = <<log[r][2].out, log[r][4].out>>
        /\ \A k \in 1..Len(log[r]) : log[r][k].node = "w1" => k = Len(ScenarioOrder)

\* a run of the pipeline returned after the call of write, and merge had got
\* two different inputs
C15_Witness ==
    /\ pc = "returned"
    /\ Len(Cur) = Len(ScenarioOrder)
    /\ Cur[5].node = "m"
    /\ Cur[5].args[1] # Cur[5].args[2]
    /\ Cur[5].exc = NoExc
    /\ Cur[7].node = "w1"
    /\ Cur[7].exc = NoExc

\* C16: the positional inputs of a call are the outputs this run's calls of
\* the node's parents gave, one per entry of the parents list and in the
\* order of that list, whatever the order the parents were executed in; a
\* root is called without inputs.
C16_InputsInEdgeOrder ==
    \A r \in 1..Len(log) : \A k \in 1..Len(log[r]) :
        LET e == log[r][k]
            ps == parents[e.node]
        IN /\ Len(e.args) = Len(ps)
           /\ is_root(e.node) => e.args = <<>>
           /\ \A j \in 1..Len(ps) :
                 \E i \in 1..(k - 1) :
                     /\ TaskId(log[r][i].node) = TaskId(ps[j])
                     /\ log[r][i].exc = NoExc
                     /\ e.args[j] = log[r][i].out

\* a node was called whose second parent had been executed before its first
\* parent, with different outputs
C16_Witness ==
    /\ log # <<>>
    /\ \E k \in 1..Len(Cur) :
        LET e == Cur[k]
            ps == parents[e.node]
        IN /\ Len(ps) = 2
           /\ Len(e.args) = 2
           /\ e.args[1] # e.args[2]
           /\ \E i1 \in 1..(k - 1), i2 \in 1..(k - 1) :
                 /\ i2 < i1
                 /\ TaskId(Cur[i1].node) = TaskId(ps[1])
                 /\ TaskId(Cur[i2].node) = TaskId(ps[2])

\* C17: every run() starts with an empty results dict, so that the dict holds
\* the outputs of this run's calls and nothing else; a second run() that
\* returns has called every registered node exactly once, also after a first
\* run that failed.
C17_FreshCache ==
    /\ pc \in {"running", "returned", "TaskExecutionError"} =>
          /\ DOMAIN results =
                {TaskId(Cur[k].node) : k \in {i \in 1..Len(Cur) : Cur[i].exc = NoExc}}
          /\ \A k \in 1..Len(Cur) :
                Cur[k].exc = NoExc => results[TaskId(Cur[k].node)] = Cur[k].out
    /\ (Len(log) = 2 /\ pc = "returned") =>
          \A o \in Registered :
              \E k \in 1..Len(Cur) :
                  /\ Cur[k].node = o
                  /\ \A j \in 1..Len(Cur) : Cur[j].node = o => j = k

\* a second run returned after a first run that had failed part-way
C17_Witness ==
    /\ Len(log) = 2
    /\ pc = "returned"
    /\ Len(log[1]) >= 2
    /\ log[1][Len(log[1])].exc # NoExc
    /\ Len(log[2]) > Len(log[1])
    /\ \A o \in Registered : \E k \in 1..Len(Cur) : Cur[k].node = o

\* C18: no step of run(), in a run that returns, fails in a node or raises
\* the cycle error, changes the registered nodes or a parents or children
\* list.
C18_RunKeepsGraph ==
    [][last'.op = "run" => UNCHANGED <<nodes, parents, children>>]_vars

\* a run failed in a node, the next run returned, on a graph with a fan-in
C18_Witness ==
    /\ last.op = "run"
    /\ Len(log) = 2
    /\ log[1] # <<>>
    /\ log[1][Len(log[1])].exc # NoExc
    /\ pc = "returned"
    /\ \E o \in Registered : Len(parents[o]) = 2 /\ children[o] = <<>>

\* the visitor stands at the entry of execute_node for a node that has no
\* result yet and has a parent without a result
AtUnreadyNode ==
    /\ pc = "running"
    /\ frames # <<>>
    /\ Top.i = 0
    /\ TaskId(Top.node) \notin DOMAIN results
    /\ \E j \in 1..Len(parents[Top.node]) :
          TaskId(parents[Top.node][j]) \notin DOMAIN results

\* C19: reaching a node that has no result yet and has a parent without a
\* result, the visitor returns to its caller: no execute is called, the
\* results dict stays as it is (the node stays without a result, so a later
\* visit may execute it), no child is visited and run() goes on.
C19_DeferLeavesNoTrace ==
    [][AtUnreadyNode =>
          /\ frames' = Pop
          /\ UNCHANGED <<results, log, params, pc, it, nodes, parents, children>>]_vars

\* the loop over the children has come back from a child that is still
\* without a result
C19_Witness ==
    /\ pc = "running"
    /\ frames # <<>>
    /\ Top.i > 1
    /\ Top.i - 1 <= Len(children[Top.node])
    /\ TaskId(children[Top.node][Top.i - 1]) \notin DOMAIN results
    /\ Len(parents[NodeAt(nodes, TaskId(children[Top.node][Top.i - 1]))]) >= 2

\* C20: a Merge node whose direction is not "right", called with (A, B),
\* keeps its stored parameters as they were and, when A is a frame, calls
\* join on A with B as the other frame and the direction as configured.
C20_MergeKeepsOrder ==
    \A r \in 1..Len(log) : \A k \in 1..Len(log[r]) :
        LET e == log[r][k] IN
        (TaskType(e.node) = "merge" /\ e.cfg # "right" /\ Len(e.args) = 2) =>
            /\ e.stored = [InitParams(e.node) EXCEPT !.how = e.cfg]
            /\ r = Len(log) => params[e.node] = e.stored
            /\ e.args[1] # None =>
                  /\ e.prim = <<e.args[1], e.args[2]>>
                  /\ e.how = e.cfg
            /\ e.exc = NoExc =>
                  e.out = <<"join", e.cfg, InitParams(e.node).on>> \o e.args[1] \o e.args[2]

\* a Merge node with the direction "inner" joined two different frames
C20_Witness ==
    \E r \in 1..Len(log) : \E k \in 1..Len(log[r]) :
        /\ TaskType(log[r][k].node) = "merge"
        /\ log[r][k].cfg = "inner"
        /\ Len(log[r][k].args) = 2
        /\ log[r][k].args[1] # log[r][k].args[2]
        /\ log[r][k].exc = NoExc

\* the calls of run number r made on the object o with two inputs
PairCalls(r, o) ==
    {k \in 1..Len(log[r]) : log[r][k].node = o /\ Len(log[r][k].args) = 2}

\* C21: a Merge node built with the direction "right" has "left" stored in
\* its own parameters once it was executed with two inputs, and keeps it: a
\* later execute of the node finds "left" and joins its first input with its
\* second, so only the first execution swaps.
C21_SwapOnce ==
    \A o \in pool :
        (TaskType(o) = "merge" /\ InitParams(o).how = "right") =>
            /\ params[o] \in {InitParams(o), [InitParams(o) EXCEPT !.how = "left"]}
            /\ \A r \in 1..Len(log) : \A k \in PairCalls(r, o) :
                  LET e == log[r][k] IN
                  /\ e.stored.how = "left"
                  /\ params[o].how = "left"
                  /\ (e.cfg = "right" /\ e.args[2] # None) =>
                        e.prim = <<e.args[2], e.args[1]>>
                  /\ e.cfg # "right" =>
                        /\ e.cfg = "left"
                        /\ e.args[1] # None =>
                              /\ e.prim = <<e.args[1], e.args[2]>>
                              /\ e.how = "left"
            /\ (Len(log) = 2 /\ PairCalls(1, o) # {}) =>
                  \A k \in PairCalls(2, o) : log[2][k].cfg = "left"

\* a Merge node built with "right" swapped two different frames in one run
\* and joined them unswapped in the next
C21_Witness ==
    /\ Len(log) = 2
    /\ \E o \in pool : \E j \in PairCalls(1, o) : \E k \in PairCalls(2, o) :
          /\ InitParams(o).how = "right"
          /\ log[1][j].cfg = "right"
          /\ log[1][j].args[1] # log[1][j].args[2]
          /\ log[1][j].prim = <<log[1][j].args[2], log[1][j].args[1]>>
          /\ log[2][k].cfg = "left"
          /\ log[2][k].prim = log[2][k].args
          /\ log[2][k].exc = NoExc

\* C22: add_node and add_edge raise nothing whatever number of parents a
\* node of any class gets, and the cycle check looks at cycles only; a node
\* whose number of parents is not the number of inputs of its execute fails
\* when it is executed, with a TaskExecutionError caused by a TypeError that
\* ends the run after the calls made before it, so that no run returns on a
\* graph with such a node.
C22_ArityAtExecution ==
    /\ last.op \in {"add_node", "add_edge"} => last.exc = NoExc
    /\ pc = "PipelineCycleError" => IsCyclic
    /\ pc = "returned" => \A o \in Registered : Len(parents[o]) = Arity(o)
    /\ \A r \in 1..Len(log) : \A k \in 1..Len(log[r]) :
          LET e == log[r][k] IN
          Len(parents[e.node]) # Arity(e.node) =>
              /\ e.exc = "TaskExecutionError"
              /\ e.cause = "TypeError"
              /\ k = Len(log[r])
              /\ \A j \in 1..(k - 1) : log[r][j].exc = NoExc
              /\ r = Len(log) => pc = "TaskExecutionError"

\* a run ended in a Merge node with one parent, after its parent had been
\* executed, on a graph that also holds a Read node with a parent
C22_Witness ==
    /\ pc = "TaskExecutionError"
    /\ Len(Cur) >= 2
    /\ TaskType(Cur[Len(Cur)].node) = "merge"
    /\ Len(parents[Cur[Len(Cur)].node]) = 1
    /\ Cur[Len(Cur)].cause = "TypeError"
    /\ \E o \in Registered : TaskType(o) = "read" /\ parents[o] # <<>>

\* C23: every node in the list find_cycles returns lies on a directed cycle.
C23_CycleNodesOnCycle ==
    pc = "idle" =>
        \A k \in 1..Len(find_cycles) : OnCycle(TaskId(find_cycles[k]))

\* the position of a registered node in the insertion order of the DAG
Pos(o) == CHOOSE i \in 1..Len(nodes) : nodes[i] = o

\* the positions of the roots that o is, or can be reached from
RootsOver(o) ==
    {i \in 1..Len(nodes) :
        is_root(nodes[i]) /\ (nodes[i] = o \/ TaskId(o) \in Reach(TaskId(nodes[i])))}

Max(S) == CHOOSE m \in S : \A x \in S : x <= m

\* the position of the last inserted root that o is or descends from: the
\* traversal in which the last of o's inputs becomes available
LastRoot(o) == Max(RootsOver(o))

\* C24: run starts its traversals from the roots in node-insertion order:
\* the nodes execute ordered by the traversal that makes them executable,
\* and when a root executes, every earlier inserted root and every node made
\* executable by the traversals of earlier roots has executed before it.
C24_RootsInInsertionOrder ==
    log # <<>> =>
        /\ \A j, k \in 1..Len(Cur) :
              j < k => LastRoot(Cur[j].node) <= LastRoot(Cur[k].node)
        /\ \A k \in 1..Len(Cur) :
              is_root(Cur[k].node) =>
                  \A o \in Registered :
                      (RootsOver(o) # {} /\ LastRoot(o) < Pos(Cur[k].node)) =>
                          \E j \in 1..(k - 1) : Cur[j].node = o

\* r1, inserted before r2, ran first, and t3, inserted after r2 but made
\* executable by r1, ran before r2; m waited for r2
C24_Witness ==
    /\ pc = "returned"
    /\ log # <<>>
    /\ Len(Cur) = 6
    /\ Pos("r1") < Pos("r2")
    /\ Pos("r2") < Pos("t3")
    /\ Cur[1].node = "r1"
    /\ Cur[5].node = "r2"
    /\ Cur[6].node = "m"
    /\ \E k \in 2..4 : Cur[k].node = "t3"

\* the ids executed by the first n invocations of the current run
Done(n) == {TaskId(Cur[k].node) : k \in 1..n}

\* the ids S together with every node that has a parent in S and all its
\* parents in S or B, again and again
RECURSIVE Grow(_, _)
Grow(S, B) ==
    LET T == S \cup {TaskId(o) : o \in {n \in Registered :
                 /\ \E q \in Range(parents[n]) : TaskId(q) \in S
                 /\ \A q \in Range(parents[n]) : TaskId(q) \in S \cup B}}
    IN IF T = S THEN S ELSE Grow(T, B)

\* c and the descendants that become executable through c when the ids B
\* have results
Through(c, B) == Grow({c}, B)

\* the invocation at position z is of the child at index j of the node that
\* was executed at position x, and index i < j holds another child
LaterChild(x, z, i, j) ==
    /\ x < z
    /\ Cur[x].exc = NoExc
    /\ i < j
    /\ j <= Len(children[Cur[x].node])
    /\ TaskId(children[Cur[x].node][j]) = TaskId(Cur[z].node)
    /\ TaskId(children[Cur[x].node][i]) # TaskId(Cur[z].node)

\* the child c and everything executable through it were executed before
\* position z
SubtreeBefore(c, z) ==
    \E y \in 1..(z - 1) :
        /\ TaskId(Cur[y].node) = c
        /\ \A d \in Through(c, Done(y - 1)) :
              \E w \in 1..(z - 1) : TaskId(Cur[w].node) = d

Output(o, args) ==
    CASE TaskType(o) = "read" -> <<"scan", o>>
      [] TaskType(o) = "transform" -> <<"transform", o>> \o args[1]
      [] TaskType(o) = "write" -> None
      [] OTHER -> IF InitParams(o).how = "right"
                  THEN <<"join", "left", InitParams(o).on>> \o args[2] \o args[1]
                  ELSE <<"join", InitParams(o).how, InitParams(o).on>> \o args[1] \o args[2]

\* the value of node o as the edges alone determine it: its operation applied
\* to the values of its parents, taken in the order of its parents list
RECURSIVE Value(_)
Value(o) ==
    Output(o, [k \in 1..Len(parents[o]) |-> Value(NodeAt(nodes, TaskId(parents[o][k])))])

Inputs(o) == [k \in 1..Len(parents[o]) |-> Value(NodeAt(nodes, TaskId(parents[o][k])))]

\* C26: when a run of an acyclic graph returns, every registered node was
\* executed exactly once, and the inputs it received are the values of its
\* parents in the order of its parents list: both are fixed by the nodes and
\* edges, whatever the insertion order of the nodes, which only changes the
\* order of the invocations.
C26_InputsIndependentOfOrder ==
    (pc = "returned" /\ log # <<>>) =>
        \A o \in Registered :
            /\ Cardinality({k \in 1..Len(Cur) : Cur[k].node = o}) = 1
            /\ \A k \in 1..Len(Cur) :
                  Cur[k].node = o =>
                      /\ Cur[k].exc = NoExc
                      /\ Cur[k].args = Inputs(o)
                      /\ Cur[k].out = Value(o)

\* r2 was inserted and executed before everything else, and the merge still
\* received t1's output first and r2's output second
C26_Witness ==
    /\ pc = "returned"
    /\ log # <<>>
    /\ nodes[1] = "r2"
    /\ Cur[1].node = "r2"
    /\ \E k \in 1..Len(Cur) :
          /\ Cur[k].node = "m"
          /\ Cur[k].args = << <<"transform", "t1", "scan", "r1">>, <<"scan", "r2">> >>

\* the registered nodes without any parent and without any child
Orphans == {o \in Registered : parents[o] = <<>> /\ children[o] = <<>>}

\* C27: find_orphan_nodes returns exactly the registered nodes that have
\* neither parents nor children, each once and in node-insertion order; the
\* endpoints of an add_edge call are not among them; orphan nodes do not make
\* run() refuse to start; and a call of find_orphan_nodes changes nothing in
\* the DAG or in the tasks.
C27_OrphanNodes ==
    /\ [](/\ Range(find_orphan_nodes) = Orphans
          /\ \A i, j \in 1..Len(find_orphan_nodes) :
                i < j => Pos(find_orphan_nodes[i]) < Pos(find_orphan_nodes[j])
          /\ last.op = "find_orphan_nodes" => last.ret = find_orphan_nodes
          /\ (last.op = "add_edge" /\ last.exc = NoExc) =>
                \A k \in 1..Len(find_orphan_nodes) :
                    TaskId(find_orphan_nodes[k]) \notin {TaskId(last.a), TaskId(last.b)}
          /\ pc = "PipelineCycleError" => IsCyclic)
    /\ [][FindOrphanNodes =>
            UNCHANGED <<nodes, parents, children, params, pc, results, log>>]_vars

\* r2 was reported as the only orphan of a pipeline with the edge r1 -> t1,
\* and the run that followed executed all three nodes and returned
C27_Witness ==
    /\ last.op = "find_orphan_nodes"
    /\ last.ret = <<"r2">>
    /\ Len(nodes) = 3
    /\ children["r1"] = <<"t1">>
    /\ pc = "returned"
    /\ Len(results["t1"]) > 0

\* C28: for every registered node is_root holds iff its parents list is
\* empty, is_leaf iff its children list is empty, is_fan_in iff its parents
\* list has more than one entry, is_fan_out iff its children list has more
\* than one entry; the child of an add_edge call is not a root when the call
\* returns, and a registered node that is not a root never becomes one again.
C28_StructuralQueries ==
    /\ [](/\ \A o \in Registered :
                /\ is_root(o) <=> parents[o] = <<>>
                /\ is_leaf(o) <=> children[o] = <<>>
                /\ is_fan_in(o) <=> Len(parents[o]) >= 2
                /\ is_fan_out(o) <=> Len(children[o]) >= 2
          /\ (last.op = "add_edge" /\ last.exc = NoExc) =>
                ~is_root(NodeAt(nodes, TaskId(last.b))))
    /\ [][\A o \in Registered : ~is_root(o) => ~is_root(o)']_vars

\* t1 got the same parent twice and was then passed to add_node again: it is
\* a fan-in leaf and no root, its parent a fan-out root
C28_Witness ==
    /\ last.op = "add_node"
    /\ last.a = "t1"
    /\ parents["t1"] = <<"r1", "r1">>
    /\ is_fan_in("t1") /\ is_leaf("t1") /\ ~is_root("t1") /\ ~is_fan_out("t1")
    /\ is_root("r1") /\ is_fan_out("r1") /\ ~is_leaf("r1") /\ ~is_fan_in("r1")

\* the number of entries of the list s that carry the id
CountId(s, id) == Cardinality({k \in 1..Len(s) : TaskId(s[k]) = id})

\* C29: for all registered ids p and c, p's children hold as many entries
\* for c as c's parents hold for p, and every id found in a parents or
\* children list of a registered node is registered.
C29_EdgesSymmetricAndClosed ==
    /\ \A p, c \in Ids(nodes) :
          CountId(children[NodeAt(nodes, p)], c) = CountId(parents[NodeAt(nodes, c)], p)
    /\ \A o \in Registered :
          Ids(parents[o]) \cup Ids(children[o]) \subseteq Ids(nodes)

\* two edges r1 -> t1, the second given another object with the id t1: the
\* registered nodes hold two entries on either side
C29_Witness ==
    /\ nodes = <<"r1", "t1">>
    /\ children["r1"] = <<"t1", "t1x">>
    /\ parents["t1"] = <<"r1", "r1">>
    /\ last.op = "add_edge"

\* the step is a call add_edge(p, c)
IsAddEdge(p, c) == calls' = calls + 1 /\ last' = Call("add_edge", p, c, NoExc)

\* C30: every add_edge(p, c) call adds one entry for p to c's parents and
\* one for c to p's children, so the same call made twice leaves two of each
\* and c a fan-in node; in a run such a c is executed at most once, after p
\* has returned, and receives p's output at every position p holds in its
\* parents list.
C30_DuplicateEdge ==
    /\ [][\A p, c \in pool :
            IsAddEdge(p, c) =>
                LET pn == NodeAt(nodes', TaskId(p))
                    cn == NodeAt(nodes', TaskId(c))
                IN /\ CountId(parents'[cn], TaskId(p)) = CountId(parents[cn], TaskId(p)) + 1
                   /\ CountId(children'[pn], TaskId(c)) = CountId(children[pn], TaskId(c)) + 1
                   /\ (last = Call("add_edge", p, c, NoExc)) =>
                         /\ CountId(parents'[cn], TaskId(p)) >= 2
                         /\ CountId(children'[pn], TaskId(c)) >= 2
                         /\ Len(parents'[cn]) > 1]_vars
    /\ [](log # <<>> =>
            \A c \in Registered :
                \A i, j \in 1..Len(parents[c]) :
                    (i < j /\ TaskId(parents[c][i]) = TaskId(parents[c][j])) =>
                        /\ Cardinality({k \in 1..Len(Cur) : Cur[k].node = c}) <= 1
                        /\ \A k \in 1..Len(Cur) :
                              Cur[k].node = c =>
                                  \E x \in 1..(k - 1) :
                                      /\ TaskId(Cur[x].node) = TaskId(parents[c][i])
                                      /\ Cur[x].exc = NoExc
                                      /\ Len(Cur[k].args) = Len(parents[c])
                                      /\ Cur[k].args[i] = Cur[x].out
                                      /\ Cur[k].args[j] = Cur[x].out)

\* add_edge(r1, m) was called twice and the run returned: m was executed
\* once, after r1, with r1's frame as both inputs
C30_Witness ==
    /\ pc = "returned"
    /\ parents["m"] = <<"r1", "r1">>
    /\ children["r1"] = <<"m", "m">>
    /\ is_fan_in("m")
    /\ Invoked(Len(log)) = <<"r1", "m">>
    /\ Cur[2].args = << <<"scan", "r1">>, <<"scan", "r1">> >>
    /\ Cur[2].exc = NoExc

\* C31: an add_edge call links the objects registered under the ids of its
\* arguments: their lists grow by the objects passed, while an object that
\* is not registered (one shadowed by an earlier object of the same id
\* included) keeps empty parents and children lists; and run() invokes
\* execute only on registered objects.
C31_ShadowedObject ==
    /\ [](/\ \A o \in Objs \ Registered : parents[o] = <<>> /\ children[o] = <<>>
          /\ \A r \in 1..Len(log) : \A k \in 1..Len(log[r]) :
                log[r][k].node \in Registered)
    /\ [][\A p, c \in pool :
            IsAddEdge(p, c) =>
                LET pn == NodeAt(nodes', TaskId(p))
                    cn == NodeAt(nodes', TaskId(c))
                IN /\ children'[pn] = Append(children[pn], c)
                   /\ parents'[cn] = Append(parents[cn], p)
                   /\ (pn # cn) => parents'[pn] = parents[pn] /\ children'[cn] = children[cn]
                   /\ \A o \in Objs \ {pn, cn} :
                         parents'[o] = parents[o] /\ children'[o] = children[o]]_vars

\* t1 was registered first and add_edge(r1, t1x) given a second object with
\* the id t1: the edge hangs on t1, t1x has no links, and the run executed
\* r1 and then t1
C31_Witness ==
    /\ pc = "returned"
    /\ nodes = <<"t1", "r1">>
    /\ children["r1"] = <<"t1x">>
    /\ parents["t1"] = <<"r1">>
    /\ parents["t1x"] = <<>>
    /\ Cur[1].node = "r1"
    /\ Cur[2].node = "t1"
    /\ Cur[2].exc = NoExc

\* C32: a lookup of an id that is not registered raises KeyError, a lookup
\* of a registered id returns the object registered under it, and neither
\* changes the DAG.
C32_Lookup ==
    /\ [](last.op = "getitem" =>
            /\ last.exc \in {NoExc, "KeyError"}
            /\ last.exc = "KeyError" <=> last.a \notin Ids(nodes)
            /\ last.exc = NoExc =>
                  last.item \in Registered /\ TaskId(last.item) = last.a)
    /\ [][(\E task_id \in LookupIds : GetItem(task_id)) =>
            UNCHANGED <<nodes, parents, children, params, pc, results, log>>]_vars

\* the id t1 was looked up in a DAG holding r1 and r2 only
C32_Witness ==
    /\ last.op = "getitem"
    /\ last.a = "t1"
    /\ last.exc = "KeyError"
    /\ nodes = <<"r1", "r2">>
    /\ children["r1"] = <<"r2">>

\* C33: executing a read of an existing source, or a write, whose path
\* carries a format tag without a registered reader or writer fails with
\* the unsupported-format error (a ValueError wrapped by try_except) that
\* names the tag.
C33_UnsupportedFormat ==
    /\ (last.op = "ReadTask.execute" /\ last.exists /\ splitext(last.a) \notin DOMAIN instances) =>
          /\ last.res.exc = "TaskExecutionError"
          /\ last.res.cause = "ValueError"
          /\ last.res.names = splitext(last.a)
    /\ (last.op = "WriteTask.execute" /\ splitext(last.a) \notin DOMAIN LazyWriterMethods) =>
          /\ last.res.exc = "TaskExecutionError"
          /\ last.res.cause = "ValueError"
          /\ last.res.names = splitext(last.a)

\* the same for writes only
C33_UnsupportedWriteFormat ==
    (last.op = "WriteTask.execute" /\ splitext(last.a) \notin DOMAIN LazyWriterMethods) =>
        /\ last.res.exc = "TaskExecutionError"
        /\ last.res.cause = "ValueError"
        /\ last.res.names = splitext(last.a)

\* the table a lookup call consulted
TableOf(op) == IF op = "get_scan_method" THEN LAZY_SCAN_METHODS ELSE LAZY_SINK_METHODS

\* C34: get_scan_method(fmt) and get_sink_method(fmt) return the method
\* registered for fmt when fmt is supported in any spelling of its letters'
\* case, and raise ValueError when it is not; they raise nothing else.
C34_TwoOutcomes ==
    last.op \in {"get_scan_method", "get_sink_method"} =>
        IF lower(last.a) \in DOMAIN TableOf(last.op)
        THEN last.res.exc = NoExc /\ last.res.out = TableOf(last.op)[lower(last.a)]
        ELSE last.res.exc = "ValueError"

\* every entry of the registry before the step is still there after it, and
\* at most one entry is new
Kept(reg, regAfter) ==
    /\ DOMAIN reg \subseteq DOMAIN regAfter
    /\ \A fmt \in DOMAIN reg : regAfter[fmt] = reg[fmt]
    /\ Cardinality(DOMAIN regAfter) <= Cardinality(DOMAIN reg) + 1

\* C38: registering a reader or a lazy writer under a format tag that is
\* already registered raises ValueError and changes neither registry;
\* under a new tag it adds that one entry; and no step ever removes or
\* replaces an entry of either registry.
C38_RegistryEntries ==
    /\ [][/\ Kept(instances, instances')
          /\ Kept(LazyWriterMethods, LazyWriterMethods')
          /\ \A fn \in ScanFns, fmt \in RegTags :
                NewReader(fn, fmt) =>
                    IF fmt \in DOMAIN instances
                    THEN last'.exc = "ValueError" /\ UNCHANGED <<instances, LazyWriterMethods>>
                    ELSE last'.exc = NoExc /\ instances'[fmt] = fn
                         /\ DOMAIN instances' = DOMAIN instances \cup {fmt}
          /\ \A name \in RegTags, func \in SinkFns :
                RegisterLazyWriter(name, func) =>
                    IF name \in DOMAIN LazyWriterMethods
                    THEN last'.exc = "ValueError" /\ UNCHANGED <<instances, LazyWriterMethods>>
                    ELSE last'.exc = NoExc /\ LazyWriterMethods'[name] = func
                         /\ DOMAIN LazyWriterMethods' = DOMAIN LazyWriterMethods \cup {name}]_vars
    /\ [](Formats \subseteq DOMAIN instances /\ Formats \subseteq DOMAIN LazyWriterMethods)

\* a second reader for xlsx was refused and the first one is still registered
C38_Witness ==
    /\ last.op = "Reader"
    /\ last.a = "xlsx"
    /\ last.b = "scan_csv"
    /\ last.exc = "ValueError"
    /\ instances["xlsx"] = "read_excel"
    /\ "CSV" \in DOMAIN LazyWriterMethods

\* the steps a run of the linear pipeline is to make: the reader, the
\* transforms in the order given, the writes in the order given
Plan ==
    <<linear.reader>>
        \o SelectSeq(linear.operations, LAMBDA op : OpClass(op) = "TransformOperation")
        \o SelectSeq(linear.operations, LAMBDA op : OpClass(op) = "WriteOperation")

NTransforms ==
    Len(SelectSeq(linear.operations, LAMBDA op : OpClass(op) = "TransformOperation"))

\* C35: a run of a linear pipeline executes the read first, then every
\* transform in the order given, each on the previous step's output, then
\* every write, each on the output of the last transform, and returns that
\* output; a step that raises ends the run with its exception.
C35_LinearOrder ==
    last.op = "Pipeline.run" =>
        /\ Len(trace) >= 1 /\ Len(trace) <= Len(Plan)
        /\ \A k \in 1..Len(trace) :
              /\ trace[k].op = Plan[k]
              /\ trace[k].arg = IF k = 1 THEN <<>>
                                ELSE IF k <= 1 + NTransforms THEN trace[k - 1].out
                                ELSE trace[1 + NTransforms].out
              /\ k < Len(trace) => trace[k].exc = NoExc
        /\ last.exc = trace[Len(trace)].exc
        /\ last.exc = NoExc =>
              /\ Len(trace) = Len(Plan)
              /\ last.ret = trace[1 + NTransforms].out

\* Pipeline(wr1, tf1, rd1) ran rd1, then tf1, then wr1 on the filtered
\* handle, and returned that handle
C35_Witness ==
    /\ last.op = "Pipeline.run"
    /\ last.exc = NoExc
    /\ linear.operations = <<"wr1", "tf1", "rd1">>
    /\ Len(trace) = 3
    /\ trace[1].op = "rd1" /\ trace[2].op = "tf1" /\ trace[3].op = "wr1"
    /\ trace[3].arg = <<"filter", "tf1", "scan", "rd1">>
    /\ last.ret = <<"filter", "tf1", "scan", "rd1">>

\* the last read operation among the operations, "None" without one
RECURSIVE LastRead(_)
LastRead(operations) ==
    IF operations = <<>> THEN "None"
    ELSE IF OpClass(operations[Len(operations)]) = "ReadOperation"
    THEN operations[Len(operations)]
    ELSE LastRead(SubSeq(operations, 1, Len(operations) - 1))

\* C36: the constructor of a linear pipeline raises ValueError when an
\* argument is no Operation or when no read operation is among the
\* arguments, and then no pipeline exists and nothing was executed; it
\* succeeds otherwise, keeping the last read operation as the reader, and a
\* run executes no other read operation.
C36_Construction ==
    /\ last.op = "Pipeline" =>
          IF (\E i \in 1..Len(last.a) : ~IsOperation(last.a[i])) \/ LastRead(last.a) = "None"
          THEN last.exc = "ValueError" /\ linear = NoPipeline /\ trace = <<>>
          ELSE last.exc = NoExc /\ linear.reader = LastRead(last.a) /\ trace = <<>>
    /\ last.op = "Pipeline.run" =>
          \A k \in 1..Len(trace) :
              OpClass(trace[k].op) = "ReadOperation" =>
                  trace[k].op = LastRead(linear.operations)

\* the same for arguments none of which is an instance of the base class
\* Operation itself
C36_ConstructionOfSubclasses ==
    (last.op = "Pipeline" /\ \A i \in 1..Len(last.a) : OpClass(last.a[i]) # "Operation") =>
        IF (\E i \in 1..Len(last.a) : ~IsOperation(last.a[i])) \/ LastRead(last.a) = "None"
        THEN last.exc = "ValueError" /\ linear = NoPipeline /\ trace = <<>>
        ELSE last.exc = NoExc /\ linear.reader = LastRead(last.a) /\ trace = <<>>

\* the transforms among the steps after the first, in sequence order
StepTransforms == SelectSeq(Tail(last.a), LAMBDA op : OpClass(op) = "TransformOperation")

\* the write steps after the first step, in sequence order
StepWrites == SelectSeq(Tail(last.a), LAMBDA op : OpClass(op) = "WriteOperation")

\* the calls execute is to make: the read, every transform in sequence
\* order, then the last write step alone
StepPlan ==
    <<last.a[1]>> \o StepTransforms
        \o (IF StepWrites = <<>> THEN <<>> ELSE <<StepWrites[Len(StepWrites)]>>)

\* what the claim says of a call whose first step is a ReadOperation: the
\* calls are made in the order of StepPlan, each transform on the previous
\* output, the write on the last transform's output; a step that raises
\* ends the call with its exception; the call returns the write's result,
\* or the transformed handle without a write step
ExecutePlanned ==
    /\ Len(trace) >= 1 /\ Len(trace) <= Len(StepPlan)
    /\ \A k \in 1..Len(trace) :
          /\ trace[k].op = StepPlan[k]
          /\ trace[k].arg = IF k = 1 THEN <<>> ELSE trace[k - 1].out
          /\ k < Len(trace) => trace[k].exc = NoExc
    /\ last.exc = trace[Len(trace)].exc
    /\ last.exc = NoExc =>
          /\ Len(trace) = Len(StepPlan)
          /\ last.ret = IF StepWrites = <<>> THEN trace[1 + Len(StepTransforms)].out
                        ELSE trace[Len(trace)].out

\* C37: execute(pipeline) raises ValueError and calls no step unless the
\* first step of the sequence is a ReadOperation; with a ReadOperation
\* first it calls the read, every transform in sequence order and then
\* the last write step only, and returns the write's result, or the
\* transformed handle when there is no write step.
C37_BackendExecute ==
    last.op = "execute" =>
        IF last.a = <<>> \/ OpClass(last.a[1]) # "ReadOperation"
        THEN last.exc = "ValueError" /\ trace = <<>>
        ELSE ExecutePlanned

\* the same for a sequence that has a first step
C37_BackendExecuteNonEmpty ==
    (last.op = "execute" /\ last.a # <<>>) =>
        IF OpClass(last.a[1]) # "ReadOperation"
        THEN last.exc = "ValueError" /\ trace = <<>>
        ELSE ExecutePlanned

\* execute(<<rd1, wr1, tf1>>) called rd1, then tf1, then wr1 on the filtered
\* handle and returned the write's result
C37_WriteAfterTransforms ==
    /\ last.op = "execute" /\ last.exc = NoExc
    /\ last.a = <<"rd1", "wr1", "tf1">>
    /\ Len(trace) = 3
    /\ trace[3].op = "wr1"
    /\ trace[3].arg = <<"filter", "tf1", "scan", "rd1">>
    /\ last.ret = <<"None">>
====
